---- MODULE Spec2Model ----
(***************************************************************************)
(* Inventory reconciliation engine of Ecommerce-Manager.                   *)
(*                                                                         *)
(* compare_stock.py: compute_diff_multi / apply_sync_multi and the         *)
(* InventoryGUI handlers that drive them (Select Keys/Columns, Compare,    *)
(* Apply Sync).  A DataFrame is a record [cols, rows]: the set of its      *)
(* value columns and the sequence of its raw rows; a row carries the value *)
(* of its key column(s) as one atom and one cell per value column.         *)
(***************************************************************************)
EXTENDS Integers, Sequences, FiniteSets, TLC

(* ------------------------------ bounds -------------------------------- *)
\* longest raw table drawn as an input
MaxRows == 2

(* ------------------------------ values -------------------------------- *)
\* a cell: null/NaN, a number, or text
Null == [t |-> "null", n |-> 0, s |-> ""]
Num(n) == [t |-> "num", n |-> n, s |-> ""]
Str(s) == [t |-> "str", n |-> 0, s |-> s]

\* key values in index order (Index.union / Index.difference sort the keys)
KeySeq == <<"A", "B", "C">>
Keys == {KeySeq[i] : i \in DOMAIN KeySeq}
KeyRank(k) == CHOOSE i \in DOMAIN KeySeq : KeySeq[i] = k

\* value columns of the default configuration
Cols == {"FreeStock", "Account"}

\* cells of the enumerated inputs
GenVals(c) == IF c = "FreeStock" THEN {Num(0), Num(5)} ELSE {Null, Str("x")}

\* the enumerated inputs come in three shapes: stock tables over two keys, and
\* tables with an Account column (with and without FreeStock) over one key
Shapes == {[keys |-> {"A", "B"}, cols |-> {"FreeStock"}],
           [keys |-> {"A"}, cols |-> {"FreeStock", "Account"}],
           [keys |-> {"A"}, cols |-> {"Account"}]}

SeqsUpTo(S, n) == UNION {[1..m -> S] : m \in 0..n}
RowsOver(sh) == {[key |-> k, vals |-> v] : k \in sh.keys,
                  v \in {f \in [sh.cols -> UNION {GenVals(c) : c \in sh.cols}] :
                            \A c \in sh.cols : f[c] \in GenVals(c)}}
RawTables == UNION {{[cols |-> sh.cols, rows |-> r] : r \in SeqsUpTo(RowsOver(sh), MaxRows)} :
                      sh \in Shapes}

EmptyTable == [cols |-> {}, rows |-> <<>>]

(* ---------------------- compare_stock.py helpers ---------------------- *)
\* drop_duplicates(subset=key_cols): the first row of every key is kept
RECURSIVE DropDuplicates(_, _)
DropDuplicates(rows, seen) ==
    IF rows = <<>> THEN <<>>
    ELSE IF Head(rows).key \in seen
         THEN DropDuplicates(Tail(rows), seen)
         ELSE <<Head(rows)>> \o DropDuplicates(Tail(rows), seen \cup {Head(rows).key})

\* as_multi_index: de-duplicate on the key, then index by it
as_multi_index(df) == [cols |-> df.cols, rows |-> DropDuplicates(df.rows, {})]

\* idxed.index, k in idxed.index, idxed.loc[k]
Index(idxed) == {idxed.rows[i].key : i \in DOMAIN idxed.rows}
Loc(idxed, k) == idxed.rows[CHOOSE i \in DOMAIN idxed.rows : idxed.rows[i].key = k].vals

\* keys of an index in sorted order
RECURSIVE SortKeys(_)
SortKeys(S) ==
    IF S = {} THEN <<>>
    ELSE LET m == CHOOSE k \in S : \A j \in S : KeyRank(k) <= KeyRank(j)
         IN <<m>> \o SortKeys(S \ {m})

\* pd.isna
isna(v) == v.t = "null"

\* pd.to_numeric(errors="coerce") of one cell: text that is no number becomes NaN
to_numeric(v) == IF v.t = "num" THEN v ELSE Null

\* is_in_stock: to_numeric, fillna(0), > 0
is_in_stock(v) ==
    LET s == to_numeric(v)
        filled == IF isna(s) THEN 0 ELSE s.n
    IN filled > 0

(* ------------------------- compute_diff_multi ------------------------- *)
\* variant: two cells differ only when their in-stock state differs
CellDiffers_StockState(v_s, v_t) == is_in_stock(v_s) # is_in_stock(v_t)

\* variant: a null on either side is never a difference
CellDiffers_NullIgnored(v_s, v_t) == (~isna(v_s)) /\ (~isna(v_t)) /\ v_s # v_t

\* lines 149-152: both NaN is equal; one NaN, or unequal values, is a difference
CellDiffers(v_s, v_t) ==
    IF isna(v_s) /\ isna(v_t) THEN FALSE
    ELSE (isna(v_s) # isna(v_t)) \/ (v_s # v_t)

\* variant: every column the two tables share is compared
Diffs_AllSharedCols(k, src_idxed, tgt_idxed, compare_cols) ==
    {c \in src_idxed.cols \cap tgt_idxed.cols :
        CellDiffers(Loc(src_idxed, k)[c], Loc(tgt_idxed, k)[c])}

\* diffs of one key present on both sides
Diffs(k, src_idxed, tgt_idxed, compare_cols) ==
    {c \in compare_cols : CellDiffers(Loc(src_idxed, k)[c], Loc(tgt_idxed, k)[c])}

\* variant: the two one-sided labels exchanged
Change_Swapped(k, src_idxed, tgt_idxed, compare_cols) ==
    LET in_s == k \in Index(src_idxed)
        in_t == k \in Index(tgt_idxed)
    IN IF in_s /\ ~in_t THEN "removed"
       ELSE IF (~in_s) /\ in_t THEN "added"
       ELSE IF Diffs(k, src_idxed, tgt_idxed, compare_cols) # {} THEN "modified"
       ELSE "same"

\* the classification of one key of all_keys
Change(k, src_idxed, tgt_idxed, compare_cols) ==
    LET in_s == k \in Index(src_idxed)
        in_t == k \in Index(tgt_idxed)
    IN IF in_s /\ ~in_t THEN "added"
       ELSE IF (~in_s) /\ in_t THEN "removed"
       ELSE IF Diffs(k, src_idxed, tgt_idxed, compare_cols) # {} THEN "modified"
       ELSE "same"

\* the record appended to rows for a key that is not "same"
DiffRow(k, change, src_idxed, tgt_idxed, compare_cols) ==
    [key |-> k, change |-> change,
     src |-> [c \in compare_cols |->
                IF k \in Index(src_idxed) THEN Loc(src_idxed, k)[c] ELSE Null],
     tgt |-> [c \in compare_cols |->
                IF k \in Index(tgt_idxed) THEN Loc(tgt_idxed, k)[c] ELSE Null]]

\* variant: an unchanged key is skipped before it is counted
DiffStep_SameUncounted(acc, k, src_idxed, tgt_idxed, compare_cols) ==
    LET change == Change(k, src_idxed, tgt_idxed, compare_cols)
        diffs == Diffs(k, src_idxed, tgt_idxed, compare_cols)
        row == DiffRow(k, change, src_idxed, tgt_idxed, compare_cols)
    IN CASE change = "added" ->
              [acc EXCEPT !.added = @ + 1, !.rows = Append(@, row)]
         [] change = "removed" ->
              [acc EXCEPT !.removed = @ + 1, !.rows = Append(@, row)]
         [] change = "modified" ->
              [acc EXCEPT !.modified = @ + 1,
                          !.per_column_modified =
                              [c \in compare_cols |-> @[c] + (IF c \in diffs THEN 1 ELSE 0)],
                          !.rows = Append(@, row)]
         [] OTHER -> acc

\* variant: an unchanged key is counted but not skipped, so it gets a record too
DiffStep_SameEmitted(acc, k, src_idxed, tgt_idxed, compare_cols) ==
    LET change == Change(k, src_idxed, tgt_idxed, compare_cols)
        diffs == Diffs(k, src_idxed, tgt_idxed, compare_cols)
        row == DiffRow(k, change, src_idxed, tgt_idxed, compare_cols)
    IN CASE change = "added" ->
              [acc EXCEPT !.added = @ + 1, !.rows = Append(@, row)]
         [] change = "removed" ->
              [acc EXCEPT !.removed = @ + 1, !.rows = Append(@, row)]
         [] change = "modified" ->
              [acc EXCEPT !.modified = @ + 1,
                          !.per_column_modified =
                              [c \in compare_cols |-> @[c] + (IF c \in diffs THEN 1 ELSE 0)],
                          !.rows = Append(@, row)]
         [] OTHER -> [acc EXCEPT !.same = @ + 1, !.rows = Append(@, row)]

\* variant: a removed key is counted but gets no record
DiffStep_RemovedSilent(acc, k, src_idxed, tgt_idxed, compare_cols) ==
    LET change == Change(k, src_idxed, tgt_idxed, compare_cols)
        diffs == Diffs(k, src_idxed, tgt_idxed, compare_cols)
        row == DiffRow(k, change, src_idxed, tgt_idxed, compare_cols)
    IN CASE change = "added" ->
              [acc EXCEPT !.added = @ + 1, !.rows = Append(@, row)]
         [] change = "removed" ->
              [acc EXCEPT !.removed = @ + 1]
         [] change = "modified" ->
              [acc EXCEPT !.modified = @ + 1,
                          !.per_column_modified =
                              [c \in compare_cols |-> @[c] + (IF c \in diffs THEN 1 ELSE 0)],
                          !.rows = Append(@, row)]
         [] OTHER -> [acc EXCEPT !.same = @ + 1]

\* variant: a modified key increments the counter of one differing column only
DiffStep_OneColumnCounted(acc, k, src_idxed, tgt_idxed, compare_cols) ==
    LET change == Change(k, src_idxed, tgt_idxed, compare_cols)
        diffs == Diffs(k, src_idxed, tgt_idxed, compare_cols)
        row == DiffRow(k, change, src_idxed, tgt_idxed, compare_cols)
    IN CASE change = "added" ->
              [acc EXCEPT !.added = @ + 1, !.rows = Append(@, row)]
         [] change = "removed" ->
              [acc EXCEPT !.removed = @ + 1, !.rows = Append(@, row)]
         [] change = "modified" ->
              [acc EXCEPT !.modified = @ + 1,
                          !.per_column_modified =
                              [c \in compare_cols |->
                                  @[c] + (IF c = (CHOOSE d \in diffs : TRUE) THEN 1 ELSE 0)],
                          !.rows = Append(@, row)]
         [] OTHER -> [acc EXCEPT !.same = @ + 1]

\* one iteration of "for k in all_keys"
DiffStep(acc, k, src_idxed, tgt_idxed, compare_cols) ==
    LET change == Change(k, src_idxed, tgt_idxed, compare_cols)
        diffs == Diffs(k, src_idxed, tgt_idxed, compare_cols)
        row == DiffRow(k, change, src_idxed, tgt_idxed, compare_cols)
    IN CASE change = "added" ->
              [acc EXCEPT !.added = @ + 1, !.rows = Append(@, row)]
         [] change = "removed" ->
              [acc EXCEPT !.removed = @ + 1, !.rows = Append(@, row)]
         [] change = "modified" ->
              [acc EXCEPT !.modified = @ + 1,
                          !.per_column_modified =
                              [c \in compare_cols |-> @[c] + (IF c \in diffs THEN 1 ELSE 0)],
                          !.rows = Append(@, row)]
         [] OTHER -> [acc EXCEPT !.same = @ + 1]

RECURSIVE DiffLoop(_, _, _, _, _)
DiffLoop(acc, ks, src_idxed, tgt_idxed, compare_cols) ==
    IF ks = <<>> THEN acc
    ELSE DiffLoop(DiffStep(acc, Head(ks), src_idxed, tgt_idxed, compare_cols),
                  Tail(ks), src_idxed, tgt_idxed, compare_cols)

\* variant: the flips taken over the outer join, an absent side counting as 0
Flips_OuterJoin(src_idxed, tgt_idxed, compare_cols) ==
    [c \in compare_cols |->
        LET all == Index(src_idxed) \cup Index(tgt_idxed)
            s_in(k) == k \in Index(src_idxed) /\ is_in_stock(Loc(src_idxed, k)[c])
            t_in(k) == k \in Index(tgt_idxed) /\ is_in_stock(Loc(tgt_idxed, k)[c])
        IN [src_in_tgt_out |-> Cardinality({k \in all : s_in(k) /\ ~t_in(k)}),
            src_out_tgt_in |-> Cardinality({k \in all : (~s_in(k)) /\ t_in(k)})]]

\* lines 175-192: in-stock flips of the compared columns
Flips(src_idxed, tgt_idxed, compare_cols) ==
    [c \in compare_cols |->
        LET common == Index(src_idxed) \cap Index(tgt_idxed)
        IN IF common = {}
           THEN [src_in_tgt_out |-> 0, src_out_tgt_in |-> 0]
           ELSE [src_in_tgt_out |-> Cardinality({k \in common :
                       is_in_stock(Loc(src_idxed, k)[c]) /\ ~is_in_stock(Loc(tgt_idxed, k)[c])}),
                 src_out_tgt_in |-> Cardinality({k \in common :
                       (~is_in_stock(Loc(src_idxed, k)[c])) /\ is_in_stock(Loc(tgt_idxed, k)[c])})]]

\* the effective compare columns (line 108)
EffectiveCols(df_s, df_t, cols) == {c \in cols : c \in df_s.cols /\ c \in df_t.cols}

compute_diff_multi(df_s, df_t, requested_cols) ==
    LET compare_cols == EffectiveCols(df_s, df_t, requested_cols)
        src_idxed == as_multi_index(df_s)
        tgt_idxed == as_multi_index(df_t)
        all_keys == SortKeys(Index(src_idxed) \cup Index(tgt_idxed))
        start == [added |-> 0, removed |-> 0, modified |-> 0, same |-> 0,
                  total_src |-> Len(df_s.rows), total_tgt |-> Len(df_t.rows),
                  per_column_modified |-> [c \in compare_cols |-> 0],
                  rows |-> <<>>]
        done == DiffLoop(start, all_keys, src_idxed, tgt_idxed, compare_cols)
    IN [diff_df |-> done.rows,
        stats |-> [added |-> done.added, removed |-> done.removed,
                   modified |-> done.modified, same |-> done.same,
                   total_src |-> done.total_src, total_tgt |-> done.total_tgt,
                   per_column_modified |-> done.per_column_modified,
                   in_stock_flips |-> Flips(src_idxed, tgt_idxed, compare_cols)]]

(* -------------------------- apply_sync_multi -------------------------- *)
\* variant: the target is cut down to the common keys before they are overwritten
UpdateCommon_CommonOnly(t, s, common, sync_cols_final) ==
    LET kept == SelectSeq(t.rows, LAMBDA r : r.key \in common)
    IN [i \in DOMAIN kept |->
          [kept[i] EXCEPT !.vals = [c \in t.cols |->
               IF c \in sync_cols_final THEN Loc(s, kept[i].key)[c] ELSE kept[i].vals[c]]]]

\* variant: the columns that are not synced are blanked on the common keys
UpdateCommon_OthersNull(t, s, common, sync_cols_final) ==
    [i \in DOMAIN t.rows |->
        LET r == t.rows[i]
        IN IF r.key \in common
           THEN [r EXCEPT !.vals = [c \in t.cols |->
                     IF c \in sync_cols_final THEN Loc(s, r.key)[c] ELSE Null]]
           ELSE r]

\* variant: a target column the source lacks is blanked on the common keys
UpdateCommon_MissingBlanked(t, s, common, sync_cols_final) ==
    [i \in DOMAIN t.rows |->
        LET r == t.rows[i]
        IN IF r.key \in common
           THEN [r EXCEPT !.vals = [c \in t.cols |->
                     IF c \in sync_cols_final THEN Loc(s, r.key)[c]
                     ELSE IF c \notin s.cols THEN Null ELSE r.vals[c]]]
           ELSE r]

\* t.loc[common, sync_cols_final] = s.loc[common, sync_cols_final].values
UpdateCommon(t, s, common, sync_cols_final) ==
    [i \in DOMAIN t.rows |->
        LET r == t.rows[i]
        IN IF r.key \in common
           THEN [r EXCEPT !.vals = [c \in t.cols |->
                     IF c \in sync_cols_final THEN Loc(s, r.key)[c] ELSE r.vals[c]]]
           ELSE r]

\* variant: every source key is appended, not only the keys the target lacks
ToAdd_EverySourceKey(t, s, added, sync_cols_final) ==
    LET ks == SortKeys(Index(s))
    IN [i \in DOMAIN ks |->
          [key |-> ks[i],
           vals |-> [c \in t.cols |->
                       IF c \in sync_cols_final THEN Loc(s, ks[i])[c] ELSE Null]]]

\* variant: an added row takes every column the source has
ToAdd_AllSourceCols(t, s, added, sync_cols_final) ==
    LET ks == SortKeys(added)
    IN [i \in DOMAIN ks |->
          [key |-> ks[i],
           vals |-> [c \in t.cols |->
                       IF c \in s.cols THEN Loc(s, ks[i])[c] ELSE Null]]]

\* to_add: the synced columns of the added keys, every other target column pd.NA
ToAdd(t, s, added, sync_cols_final) ==
    LET ks == SortKeys(added)
    IN [i \in DOMAIN ks |->
          [key |-> ks[i],
           vals |-> [c \in t.cols |->
                       IF c \in sync_cols_final THEN Loc(s, ks[i])[c] ELSE Null]]]

\* variant: only the inserted rows are counted
TouchedCount_AddedOnly(common, added) == Cardinality(added)

\* return int(len(common) + len(added))
TouchedCount(common, added) == Cardinality(common) + Cardinality(added)

\* the table written by out.to_sql(if_exists="replace") and the returned count
apply_sync_multi(df_s, df_t, sync_cols) ==
    LET s == as_multi_index(df_s)
        t == as_multi_index(df_t)
        sync_cols_final == {c \in sync_cols : c \in s.cols /\ c \in t.cols}
        common == Index(t) \cap Index(s)
        added == Index(s) \ Index(t)
        t1 == IF Cardinality(common) > 0 /\ sync_cols_final # {}
              THEN UpdateCommon(t, s, common, sync_cols_final)
              ELSE t.rows
        t2 == IF Cardinality(added) > 0
              THEN t1 \o ToAdd(t, s, added, sync_cols_final)
              ELSE t1
    IN [out |-> [cols |-> t.cols, rows |-> t2],
        n |-> TouchedCount(common, added)]

(* ---------------------------- InventoryGUI ---------------------------- *)
VARIABLES
    src_tbl,        \* what _load_src_df returns: the source file or table
    tgt_tbl,        \* what _load_tgt_df returns: the target table of the store
    compare_cols,   \* self.compare_cols
    df_loaded,      \* self.df_src and self.df_tgt are not None
    df_src,         \* self.df_src
    df_tgt,         \* self.df_tgt
    diff_df,        \* self.diff_df: [set, rows]
    stats,          \* the stats of the last Compare
    n_up,           \* the count returned by the last apply_sync_multi
    log,            \* the last line of the log / message box
    csv_rows,       \* the rows of the loaded CSV frame: [sku, account, qty]
    agg_choice,     \* streamlit_app: the duplicate key aggregator
    upper_keys,     \* streamlit_app: uppercase keys
    strip_keys,     \* streamlit_app: trim whitespace in keys
    clamp_negative, \* streamlit_app: clamp negative quantities to 0
    compare_data_clicked,   \* streamlit_app: ss.compare_data_clicked
    a_grp,          \* streamlit_app: the aggregated warehouse frame
    vs_norm         \* inventory_reconcile_gui: [state, rows] of load_and_normalize

engine_vars == <<src_tbl, tgt_tbl, compare_cols, df_loaded, df_src, df_tgt,
                 diff_df, stats, n_up, log>>

norm_vars == <<csv_rows, agg_choice, upper_keys, strip_keys, clamp_negative,
               compare_data_clicked, a_grp, vs_norm>>

VARIABLES
    program,          \* the program at work on the two files: "reconcile" or "streamlit"
    hnau_csv,         \* the rows of the HNAU export (the warehouse upload)
    hnau_norm,        \* inventory_reconcile_gui: table hnau_norm, [state, rows]
    inventory_latest, \* inventory_reconcile_gui: table inventory_latest
    inventory,        \* inventory_reconcile_gui: table inventory
    stats_df,         \* the row of stats_sql
    datasets,         \* the keys of h_in_v_out and of v_in_h_out
    cycle,            \* [state, do_update, changes] of the last run_cycle
    b_grp,            \* streamlit_app: the aggregated e-commerce frame
    merged,           \* streamlit_app: the merged frame
    kpi               \* streamlit_app: the KPI counts

recon_vars == <<program, hnau_csv, hnau_norm, inventory_latest, inventory,
                stats_df, datasets, cycle, b_grp, merged, kpi>>

VARIABLES
    ch_rows,          \* StockImportApp / prepare_stock_import: the (sku, qty) rows to write
    chunk_size,       \* the validated chunk / batch size
    sources,          \* the source codes
    out_files,        \* the data rows of the files of _write_files
    msi_batches,      \* the batches _iter_msi_batches yields
    import_files      \* the data rows of the files of prepare_magento2_import

chunk_vars == <<ch_rows, chunk_size, sources, out_files, msi_batches, import_files>>

VARIABLES
    sia_threads,      \* StockImportApp: the threads created, self.worker is the last
    cancel_event,     \* StockImportApp: self.cancel_event
    sia_observed,     \* the worker has found cancel_event set
    rg_threads,       \* InventoryGUIApp: the threads created, self.worker is the last
    stop_event,       \* InventoryGUIApp: self.stop_event
    sftp_open,        \* the SFTP connection of _run_sftp_loop is open
    wait_left,        \* the seconds left of the poll wait
    poll_secs         \* self.poll_secs

thread_vars == <<sia_threads, cancel_event, sia_observed, rg_threads, stop_event,
                 sftp_open, wait_left, poll_secs>>

ext_vars == <<recon_vars, chunk_vars, thread_vars>>

\* what an action of the engine, and of the normalizer, leaves alone
non_engine_vars == <<norm_vars, ext_vars>>
non_norm_vars == <<engine_vars, ext_vars>>

vars == <<engine_vars, norm_vars, ext_vars>>

\* the reconciliation before any cycle, on a fresh database
NoCycle == [state |-> "none", do_update |-> FALSE, changes |-> 0]
NoSqlStats == [hnau_rows |-> 0, vs_rows |-> 0, matches |-> Null, qty_mismatches |-> Null,
               only_in_hnau |-> Null, only_in_vs |-> Null,
               hnau_in_vs_out |-> Null, vs_in_hnau_out |-> Null]
NoKpi == [total_records |-> 0, wh_only_count |-> 0, ecom_only_count |-> 0,
          both_sources_count |-> 0, wh_stock_ecom_oos |-> 0, ecom_stock_wh_oos |-> 0]
ChunkIdle ==
    /\ ch_rows = <<>>
    /\ chunk_size = 1
    /\ sources = <<>>
    /\ out_files = <<>>
    /\ msi_batches = <<>>
    /\ import_files = <<>>
ThreadsIdle ==
    /\ sia_threads = <<>>
    /\ cancel_event = FALSE
    /\ sia_observed = FALSE
    /\ rg_threads = <<>>
    /\ stop_event = FALSE
    /\ sftp_open = FALSE
    /\ wait_left = 0
    /\ poll_secs = 0
ReconIdle ==
    /\ ChunkIdle
    /\ ThreadsIdle
    /\ program = "reconcile"
    /\ hnau_csv = <<>>
    /\ hnau_norm = [state |-> "none", rows |-> {}]
    /\ inventory_latest = {}
    /\ inventory = {}
    /\ stats_df = NoSqlStats
    /\ datasets = [h_in_v_out |-> {}, v_in_h_out |-> {}]
    /\ cycle = NoCycle
    /\ b_grp = {}
    /\ merged = {}
    /\ kpi = NoKpi

\* the normalizing programs before any file is loaded, with the defaults of the
\* settings side bar
NormIdle ==
    /\ csv_rows = <<>>
    /\ agg_choice = "sum"
    /\ upper_keys = TRUE
    /\ strip_keys = TRUE
    /\ clamp_negative = FALSE
    /\ compare_data_clicked = FALSE
    /\ a_grp = {}
    /\ vs_norm = [state |-> "none", rows |-> {}]

\* DEFAULT_CONFIG["all_columns_to_sync"], the key column left implicit
CfgSyncCols == {"Account", "FreeStock"}

\* DEFAULT_CONFIG["columns_to_compare"]
CfgCompareCols == {"FreeStock"}

NoStats == [added |-> 0, removed |-> 0, modified |-> 0, same |-> 0,
            total_src |-> 0, total_tgt |-> 0,
            per_column_modified |-> [c \in {} |-> 0],
            in_stock_flips |-> [c \in {} |-> 0]]

\* the section 8 scenarios of the specification, sku as key and qty as FreeStock
QtyTable(rows) ==
    [cols |-> {"FreeStock"},
     rows |-> [i \in DOMAIN rows |->
                 [key |-> rows[i][1], vals |-> [c \in {"FreeStock"} |-> Num(rows[i][2])]]]]
ScenarioSrc == QtyTable(<<<<"A", 10>>, <<"B", 0>>>>)
ScenarioTgt1 == QtyTable(<<<<"A", 10>>, <<"C", 5>>>>)
ScenarioTgt2 == QtyTable(<<<<"A", 3>>>>)

\* two tables of the default configuration (SupplierSKU, Account, FreeStock):
\* A differs in FreeStock, B differs in Account
FullTable(rows) ==
    [cols |-> Cols,
     rows |-> [i \in DOMAIN rows |->
                 [key |-> rows[i][1],
                  vals |-> [c \in Cols |-> IF c = "FreeStock" THEN rows[i][2] ELSE rows[i][3]]]]]
ExampleSrc == FullTable(<<<<"A", Num(5), Str("x")>>, <<"B", Num(0), Str("x")>>>>)
ExampleTgt == FullTable(<<<<"A", Num(0), Str("x")>>, <<"B", Num(0), Null>>>>)

Inputs ==
    (RawTables \X RawTables)
        \cup {<<ScenarioSrc, ScenarioTgt1>>, <<ScenarioSrc, ScenarioTgt2>>,
              <<ExampleSrc, ExampleTgt>>}

Init ==
    /\ \E in \in Inputs : src_tbl = in[1] /\ tgt_tbl = in[2]
    /\ compare_cols = CfgCompareCols
    /\ df_loaded = FALSE
    /\ df_src = EmptyTable
    /\ df_tgt = EmptyTable
    /\ diff_df = [set |-> FALSE, rows |-> <<>>]
    /\ stats = NoStats
    /\ n_up = 0
    /\ log = "start"
    /\ NormIdle
    /\ ReconIdle

\* save_and_close of the Select Keys / Columns dialog: the list box offers the
\* columns common to both sides; an empty selection is stored before the warning
save_and_close ==
    \E sel \in SUBSET (src_tbl.cols \cap tgt_tbl.cols) :
        /\ ~df_loaded
        /\ compare_cols' = sel
        /\ log' = IF sel = {} THEN "select_at_least_one" ELSE "selected"
        /\ UNCHANGED <<src_tbl, tgt_tbl, df_loaded, df_src, df_tgt,
                       diff_df, stats, n_up>>
        /\ UNCHANGED non_engine_vars

\* cfg_to_keys of _resolve_keys under DEFAULT_CONFIG, no keys picked in the
\* dialog: the configured key column, else a guessed key column, else the first
\* column; a frame without any column (an empty sheet) has no key
cfg_to_keys(df) == IF df = EmptyTable THEN <<>> ELSE <<"SupplierSKU">>

\* InventoryGUI.compare: self.df_src and self.df_tgt are assigned before the
\* keys are resolved, self.diff_df only after
compare ==
    LET requested == IF compare_cols # {} THEN compare_cols ELSE CfgCompareCols
        src_keys == cfg_to_keys(src_tbl)
        tgt_keys == cfg_to_keys(tgt_tbl)
    IN /\ df_src' = src_tbl
       /\ df_tgt' = tgt_tbl
       /\ df_loaded' = TRUE
       /\ IF src_keys = <<>> \/ tgt_keys = <<>>
          THEN /\ log' = "could_not_resolve_keys"
               /\ UNCHANGED <<diff_df, stats>>
          ELSE LET res == compute_diff_multi(src_tbl, tgt_tbl, requested)
               IN /\ diff_df' = [set |-> TRUE, rows |-> res.diff_df]
                  /\ stats' = res.stats
                  /\ log' = "compared"
       /\ UNCHANGED <<src_tbl, tgt_tbl, compare_cols, n_up>>
       /\ UNCHANGED non_engine_vars

\* InventoryGUI.apply_sync_action: self.diff_df is read as a plain attribute,
\* which __init__ never sets (AttributeError); apply_sync_multi fails on empty
\* key lists before it writes, and the handler shows the error
apply_sync_action ==
    /\ UNCHANGED non_engine_vars
    /\ IF ~df_loaded
       THEN /\ log' = "run_compare_first"
            /\ UNCHANGED <<src_tbl, tgt_tbl, compare_cols, df_loaded,
                           df_src, df_tgt, diff_df, stats, n_up>>
       ELSE IF ~diff_df.set
       THEN /\ log' = "AttributeError"
            /\ UNCHANGED <<src_tbl, tgt_tbl, compare_cols, df_loaded,
                           df_src, df_tgt, diff_df, stats, n_up>>
       ELSE IF diff_df.rows = <<>>
       THEN /\ log' = "nothing_to_apply"
            /\ UNCHANGED <<src_tbl, tgt_tbl, compare_cols, df_loaded,
                           df_src, df_tgt, diff_df, stats, n_up>>
       ELSE IF cfg_to_keys(df_src) = <<>> \/ cfg_to_keys(df_tgt) = <<>>
       THEN /\ log' = "showerror"
            /\ UNCHANGED <<src_tbl, tgt_tbl, compare_cols, df_loaded,
                           df_src, df_tgt, diff_df, stats, n_up>>
       ELSE LET sync_cols == IF CfgSyncCols # {} THEN CfgSyncCols
                             ELSE df_src.cols \cap df_tgt.cols
                res == apply_sync_multi(df_src, df_tgt, sync_cols)
            IN /\ tgt_tbl' = res.out
               /\ n_up' = res.n
               /\ log' = "applied"
               /\ UNCHANGED <<src_tbl, compare_cols, df_loaded,
                              df_src, df_tgt, diff_df, stats>>

Next == save_and_close \/ compare \/ apply_sync_action

Spec == Init /\ [][Next]_vars

(* -------------------- InventoryGUI with file imports ------------------ *)
\* the files Import Source may load: the sources of the scenarios and an empty
\* sheet, which read_excel returns as a frame without columns
SourceFiles == {ScenarioSrc, ExampleSrc, EmptyTable}

\* the target tables of the store
TargetTables == {ScenarioSrc, ScenarioTgt1, ScenarioTgt2, ExampleTgt}

InitGui ==
    /\ src_tbl \in SourceFiles
    /\ tgt_tbl \in TargetTables
    /\ compare_cols = CfgCompareCols
    /\ df_loaded = FALSE
    /\ df_src = EmptyTable
    /\ df_tgt = EmptyTable
    /\ diff_df = [set |-> FALSE, rows |-> <<>>]
    /\ stats = NoStats
    /\ n_up = 0
    /\ log = "start"
    /\ NormIdle
    /\ ReconIdle

\* InventoryGUI.import_source: self.df_src_file is what _load_src_df returns
\* from then on
import_source ==
    \E f \in SourceFiles \ {src_tbl} :
        /\ src_tbl' = f
        /\ log' = "loaded_source_file"
        /\ UNCHANGED <<tgt_tbl, compare_cols, df_loaded, df_src, df_tgt,
                       diff_df, stats, n_up>>
        /\ UNCHANGED non_engine_vars

NextGui == import_source \/ save_and_close \/ compare \/ apply_sync_action

SpecGui == InitGui /\ [][NextGui]_vars

(* ============================ Normalizer ============================== *)
(* streamlit_app.py (normalize_keys, coerce_quantity, duplicate            *)
(* aggregation) and inventory_reconcile_gui.py (clean_sku,                 *)
(* parse_qty_to_int, load_and_normalize).  Text is a sequence of           *)
(* one-character strings; a raw cell is text or NaN.                       *)
\* a cell of a loaded frame: text, float NaN (a missing value of an object
\* column) or pd.NA (a missing value of a "string" column)
NaNCell == [kind |-> "nan", txt |-> <<>>]
NACell == [kind |-> "na", txt |-> <<>>]
Txt(chars) == [kind |-> "str", txt |-> chars]

\* str(x)
PyStr(x) ==
    CASE x.kind = "nan" -> <<"n", "a", "n">>
      [] x.kind = "na" -> <<"<", "N", "A", ">">>
      [] OTHER -> x.txt

\* the characters of the model in code-point order
Alphabet == <<" ", "(", ")", "+", ",", "-", ".",
              "0", "1", "2", "3", "4", "5", "6", "7", "8", "9", "<", ">",
              "A", "F", "I", "L", "N", "S", "T", "U", "X",
              "a", "f", "i", "l", "n", "s", "t", "u", "x">>
CharRank(c) == CHOOSE i \in DOMAIN Alphabet : Alphabet[i] = c
DigitChars == {"0", "1", "2", "3", "4", "5", "6", "7", "8", "9"}
DigitVal(c) == CharRank(c) - CharRank("0")

\* str.upper, one character
UpperChar(c) ==
    CASE c = "a" -> "A" [] c = "f" -> "F" [] c = "i" -> "I" [] c = "l" -> "L"
      [] c = "n" -> "N" [] c = "s" -> "S" [] c = "t" -> "T" [] c = "u" -> "U"
      [] c = "x" -> "X" [] OTHER -> c
upper(str) == [i \in DOMAIN str |-> UpperChar(str[i])]

\* str.strip
RECURSIVE lstrip(_)
lstrip(str) == IF str # <<>> /\ Head(str) = " " THEN lstrip(Tail(str)) ELSE str
RECURSIVE rstrip(_)
rstrip(str) ==
    IF str # <<>> /\ str[Len(str)] = " " THEN rstrip(SubSeq(str, 1, Len(str) - 1)) ELSE str
strip(str) == rstrip(lstrip(str))

\* str.replace(",", "")
RemoveCommas(str) == SelectSeq(str, LAMBDA c : c # ",")

\* the value of a run of digits
RECURSIVE DigitsValue(_)
DigitsValue(ds) ==
    IF ds = <<>> THEN 0
    ELSE 10 * DigitsValue(SubSeq(ds, 1, Len(ds) - 1)) + DigitVal(ds[Len(ds)])

RECURSIVE Pow10(_)
Pow10(n) == IF n = 0 THEN 1 ELSE 10 * Pow10(n - 1)

AllDigits(str) == \A i \in DOMAIN str : str[i] \in DigitChars

\* a decimal literal as Decimal(s), float(s) and pd.to_numeric read it:
\* surrounding blanks, an optional sign, digits with an optional fraction, or
\* inf/infinity; anything else is no number.  The value is num / den.
NoNumber == [kind |-> "invalid", neg |-> FALSE, num |-> 0, den |-> 1]

FirstDot(body) ==
    LET dots == {i \in DOMAIN body : body[i] = "."}
    IN IF dots = {} THEN Len(body) + 1 ELSE CHOOSE i \in dots : \A j \in dots : i <= j

SignedValue(neg, mag, den) ==
    [kind |-> "num", neg |-> neg, num |-> IF neg THEN 0 - mag ELSE mag, den |-> den]

ParseParts(neg, ip, fp) ==
    IF AllDigits(ip) /\ AllDigits(fp) /\ Len(ip) + Len(fp) > 0
    THEN SignedValue(neg, DigitsValue(ip \o fp), Pow10(Len(fp)))
    ELSE NoNumber

ParseSplit(neg, body, dot) ==
    ParseParts(neg, SubSeq(body, 1, dot - 1), SubSeq(body, dot + 1, Len(body)))

ParseBody(neg, body) ==
    IF upper(body) \in {<<"I", "N", "F">>, <<"I", "N", "F", "I", "N", "I", "T", "Y">>}
    THEN [kind |-> "inf", neg |-> neg, num |-> 0, den |-> 1]
    ELSE ParseSplit(neg, body, FirstDot(body))

ParseStripped(t) ==
    IF t # <<>> /\ Head(t) \in {"+", "-"} THEN ParseBody(Head(t) = "-", Tail(t))
    ELSE ParseBody(FALSE, t)

ParseNumber(str) == ParseStripped(strip(str))

\* Decimal.to_integral_value(rounding=ROUND_HALF_UP): halves go away from zero
RoundHalfUp(num, den) ==
    LET mag == IF num < 0 THEN 0 - num ELSE num
        q == mag \div den
        r == mag % den
        up == IF 2 * r >= den THEN q + 1 ELSE q
    IN IF num < 0 THEN 0 - up ELSE up

\* inventory_reconcile_gui.clean_sku: None for None, float NaN or a blank
NoneIfEmpty(str) == IF str = <<>> THEN NaNCell ELSE Txt(str)
clean_sku(x) == IF x.kind = "nan" THEN NaNCell ELSE NoneIfEmpty(upper(strip(PyStr(x))))

\* inventory_reconcile_gui.parse_qty_to_int: [raised, v]
Returned(v) == [raised |-> FALSE, v |-> v]

\* the try block on the Decimal d of the text
ParseQtyDecimal(neg, d) ==
    IF d.kind = "num"
    THEN Returned(IF neg THEN 0 - RoundHalfUp(d.num, d.den) ELSE RoundHalfUp(d.num, d.den))
    ELSE IF d.kind = "inf"
    \* int(Decimal("Infinity")) raises OverflowError, which the
    \* except (InvalidOperation, ValueError) clause does not catch
    THEN [raised |-> TRUE, v |-> 0]
    \* InvalidOperation, then int(float(s)) fails as well
    ELSE Returned(0)

ParseQtyText(s0) ==
    IF s0 = <<>> \/ upper(s0) \in {<<"N", "U", "L", "L">>, <<"N", "A", "N">>}
    THEN Returned(0)
    ELSE IF Head(s0) = "(" /\ s0[Len(s0)] = ")"
    THEN ParseQtyDecimal(TRUE, ParseNumber(RemoveCommas(SubSeq(s0, 2, Len(s0) - 1))))
    ELSE ParseQtyDecimal(FALSE, ParseNumber(RemoveCommas(s0)))

parse_qty_to_int(x) == IF x.kind = "nan" THEN Returned(0) ELSE ParseQtyText(strip(PyStr(x)))

\* a quantity of the Streamlit frame: NaN, +/-inf or the number num / den in
\* lowest decimal terms
NaNQty == [kind |-> "nan", num |-> 0, den |-> 1]
InfQty(neg) == [kind |-> "inf", num |-> IF neg THEN 0 - 1 ELSE 1, den |-> 1]
RECURSIVE Q(_, _)
Q(num, den) ==
    IF den > 1 /\ num % 10 = 0 THEN Q(num \div 10, den \div 10)
    ELSE [kind |-> "num", num |-> num, den |-> den]

QLess(a, b) ==
    IF a.kind = "inf" THEN a.num < 0 /\ ~(b.kind = "inf" /\ b.num < 0)
    ELSE IF b.kind = "inf" THEN b.num > 0
    ELSE a.num * b.den < b.num * a.den

QAdd(a, b) ==
    IF a.kind = "nan" \/ b.kind = "nan" THEN NaNQty
    ELSE IF a.kind = "inf" /\ b.kind = "inf" THEN (IF a.num = b.num THEN a ELSE NaNQty)
    ELSE IF a.kind = "inf" THEN a
    ELSE IF b.kind = "inf" THEN b
    ELSE Q(a.num * b.den + b.num * a.den, a.den * b.den)

\* streamlit_app.normalize_keys, one element: astype(str) first, so a
\* missing key becomes the text "nan"
StripIf(flag, str) == IF flag THEN strip(str) ELSE str
UpperIf(flag, str) == IF flag THEN upper(str) ELSE str
normalize_keys(x, upper_flag, strip_flag) ==
    Txt(UpperIf(upper_flag, StripIf(strip_flag, PyStr(x))))

\* pd.to_numeric(errors="coerce"), one element: a plain decimal literal is
\* read, everything else becomes NaN
QtyOf(d) ==
    IF d.kind = "num" THEN Q(d.num, d.den)
    ELSE IF d.kind = "inf" THEN InfQty(d.neg)
    ELSE NaNQty
to_numeric_coerce(x) == IF x.kind = "str" THEN QtyOf(ParseNumber(x.txt)) ELSE NaNQty

\* q.mask(q < 0, 0), one element
MaskNegative(q) == IF q.kind # "nan" /\ QLess(q, Q(0, 1)) THEN Q(0, 1) ELSE q

\* streamlit_app.coerce_quantity, one element
ClampIf(clamp, q) == IF clamp THEN MaskNegative(q) ELSE q
coerce_quantity(x, clamp) == ClampIf(clamp, to_numeric_coerce(x))

\* a cell of a CSV file is text or missing; the Streamlit loader leaves the
\* column types to pandas, so a missing cell of a text column is float NaN
MissingCell == [kind |-> "missing", txt |-> <<>>]
load_csv(rows) ==
    [i \in DOMAIN rows |->
       [c \in {"sku", "account", "qty"} |->
          IF rows[i][c].kind = "missing" THEN NaNCell ELSE rows[i][c]]]

\* load_and_normalize reads its three columns with dtype "string", so a
\* missing cell is pd.NA
read_csv_string(rows) ==
    [i \in DOMAIN rows |->
       [c \in {"sku", "account", "qty"} |->
          IF rows[i][c].kind = "missing" THEN NACell ELSE rows[i][c]]]

\* the sum of a run of quantities, 0 for an empty run
RECURSIVE QSum(_)
QSum(vals) == IF vals = <<>> THEN Q(0, 1) ELSE QAdd(Head(vals), QSum(Tail(vals)))

NonNull(vals) == SelectSeq(vals, LAMBDA q : q.kind # "nan")
Largest(range) == CHOOSE m \in range : \A o \in range : ~QLess(m, o)
Smallest(range) == CHOOSE m \in range : \A o \in range : ~QLess(o, m)

Reduce_LastWins(aggfunc, nonnull) == IF nonnull = <<>> THEN NaNQty ELSE nonnull[Len(nonnull)]

Reduce(aggfunc, nonnull) ==
    IF aggfunc = "sum" THEN QSum(nonnull)
    ELSE IF nonnull = <<>> THEN NaNQty
    ELSE IF aggfunc = "max" THEN Largest({nonnull[i] : i \in DOMAIN nonnull})
    ELSE IF aggfunc = "min" THEN Smallest({nonnull[i] : i \in DOMAIN nonnull})
    ELSE IF aggfunc = "first" THEN nonnull[1]
    ELSE nonnull[Len(nonnull)]

\* groupby(...).agg(qty=(qty, aggfunc)) on one group: every reducer skips
\* missing values; the sum of none is 0, the others are then missing
Agg(aggfunc, vals) == Reduce(aggfunc, NonNull(vals))

\* main flow, "Normalize & clean": key columns, quantity column, dropna on keys
DropNaKeys(a) == SelectSeq(a, LAMBDA r : r.sku_key.kind = "str" /\ r.account_key.kind = "str")
NormalizeLoaded(df, up, st, cl) ==
    DropNaKeys([i \in DOMAIN df |->
                  [sku_key |-> normalize_keys(df[i].sku, up, st),
                   account_key |-> normalize_keys(df[i].account, up, st),
                   qty_wh |-> coerce_quantity(df[i].qty, cl)]])
NormalizeFrame(rows, up, st, cl) == NormalizeLoaded(load_csv(rows), up, st, cl)

\* the quantities of the rows of one key, in row order
GroupQty(a, k) ==
    LET g == SelectSeq(a, LAMBDA r : <<r.sku_key, r.account_key>> = k)
    IN [i \in DOMAIN g |-> g[i].qty_wh]

\* variant: no grouping, every normalized row is passed on
AggregateFrame_PerRow(a, aggfunc) ==
    {[sku_key |-> a[i].sku_key, account_key |-> a[i].account_key, qty_wh |-> a[i].qty_wh] :
        i \in DOMAIN a}

\* main flow, "Aggregate duplicates by key (SKU+Account)"; the frame is kept
\* as the set of its rows, the sku_raw / account_raw columns are dropped by
\* the merge and left out
AggregateFrame(a, aggfunc) ==
    {[sku_key |-> k[1], account_key |-> k[2], qty_wh |-> Agg(aggfunc, GroupQty(a, k))] :
        k \in {<<a[i].sku_key, a[i].account_key>> : i \in DOMAIN a}}

MainFlow(rows, aggfunc, up, st, cl) ==
    AggregateFrame(NormalizeFrame(rows, up, st, cl), aggfunc)

\* lexicographic order of two texts by code point
RECURSIVE LexLess(_, _)
LexLess(x, y) ==
    IF y = <<>> THEN FALSE
    ELSE IF x = <<>> THEN TRUE
    ELSE IF Head(x) = Head(y) THEN LexLess(Tail(x), Tail(y))
    ELSE CharRank(Head(x)) < CharRank(Head(y))

\* agg "min" of a "string" column: the least text, pd.NA when all are missing
MinStr(cells) ==
    LET texts == {cells[i].txt : i \in {j \in DOMAIN cells : cells[j].kind = "str"}}
    IN IF texts = {} THEN NACell
       ELSE Txt(CHOOSE m \in texts : \A o \in texts : ~LexLess(o, m))

RECURSIVE SumInt(_)
SumInt(vals) == IF vals = <<>> THEN 0 ELSE Head(vals) + SumInt(Tail(vals))

\* load_and_normalize, the vs side (the hnau side is the same pipeline with
\* supplier_id in the place of account): [state, rows]
StripNA(x) == IF x.kind = "str" THEN Txt(strip(x.txt)) ELSE NACell
AssignVs(df) ==
    [i \in DOMAIN df |->
       [sku |-> clean_sku(df[i].sku),
        qty |-> parse_qty_to_int(df[i].qty),
        account |-> StripNA(df[i].account)]]
DropNaSku(assigned) == SelectSeq(assigned, LAMBDA r : r.sku.kind = "str")
VsGroup(kept, k) == SelectSeq(kept, LAMBDA r : r.sku = k)
VsRow(k, g) ==
    [sku |-> k,
     qty |-> SumInt([i \in DOMAIN g |-> g[i].qty.v]),
     account |-> MinStr([i \in DOMAIN g |-> g[i].account])]
GroupVs(kept) == {VsRow(k, VsGroup(kept, k)) : k \in {kept[i].sku : i \in DOMAIN kept}}
NormalizeAssigned(assigned) ==
    IF \E i \in DOMAIN assigned : assigned[i].qty.raised
    THEN [state |-> "raised", rows |-> {}]
    ELSE [state |-> "ok", rows |-> GroupVs(DropNaSku(assigned))]
normalize_vs(rows) == NormalizeAssigned(AssignVs(read_csv_string(rows)))

\* the rows a file of the model can hold
CsvRow(sku, account, qty) == [sku |-> sku, account |-> account, qty |-> qty]
SkuA == Txt(<<"A">>)
AccS == Txt(<<"S">>)
ParenQty == Txt(<<"(", "1", ",", "2", "0", "0", ")">>)
QtyTexts == {Txt(<<"5">>), Txt(<<"7">>), Txt(<<"-", "3">>), Txt(<<"2", ".", "5">>),
             ParenQty, Txt(<<"x">>), Txt(<<"i", "n", "f">>), MissingCell}
\* rows that differ in the quantity, and rows that differ in the key
QtyRows == {CsvRow(SkuA, AccS, q) : q \in QtyTexts}
KeyRows ==
    {CsvRow(SkuA, AccS, Txt(<<"5">>)),
     CsvRow(Txt(<<" ", "a">>), AccS, Txt(<<"7">>)),
     CsvRow(Txt(<<" ">>), AccS, Txt(<<"5">>)),
     CsvRow(MissingCell, AccS, Txt(<<"5">>)),
     CsvRow(SkuA, Txt(<<"T">>), Txt(<<"5">>)),
     CsvRow(SkuA, MissingCell, Txt(<<"5">>))}
Frames == SeqsUpTo(QtyRows, MaxRows) \cup SeqsUpTo(KeyRows, MaxRows)

AggChoices == {"sum", "max", "min", "first", "last"}

EngineIdle ==
    /\ src_tbl = EmptyTable
    /\ tgt_tbl = EmptyTable
    /\ compare_cols = CfgCompareCols
    /\ df_loaded = FALSE
    /\ df_src = EmptyTable
    /\ df_tgt = EmptyTable
    /\ diff_df = [set |-> FALSE, rows |-> <<>>]
    /\ stats = NoStats
    /\ n_up = 0
    /\ log = "start"

\* a file is loaded, the settings are the defaults of the side bar
InitNorm ==
    /\ EngineIdle
    /\ csv_rows \in Frames
    /\ agg_choice = "sum"
    /\ upper_keys = TRUE
    /\ strip_keys = TRUE
    /\ clamp_negative = FALSE
    /\ compare_data_clicked = FALSE
    /\ a_grp = {}
    /\ vs_norm = [state |-> "none", rows |-> {}]
    /\ ReconIdle

\* one run of the Streamlit script with the given settings: the comparison
\* is computed once Compare Data has been clicked
Rerun(clicked, aggfunc, up, st, cl) ==
    a_grp' = IF clicked THEN MainFlow(csv_rows, aggfunc, up, st, cl) ELSE a_grp

\* the Compare Data button
click_compare ==
    /\ compare_data_clicked' = TRUE
    /\ Rerun(TRUE, agg_choice, upper_keys, strip_keys, clamp_negative)
    /\ UNCHANGED <<csv_rows, agg_choice, upper_keys, strip_keys, clamp_negative, vs_norm>>
    /\ UNCHANGED non_norm_vars

\* the settings widgets: a change reruns the script
set_agg_choice ==
    \E v \in AggChoices \ {agg_choice} :
        /\ agg_choice' = v
        /\ Rerun(compare_data_clicked, v, upper_keys, strip_keys, clamp_negative)
        /\ UNCHANGED <<csv_rows, upper_keys, strip_keys, clamp_negative,
                       compare_data_clicked, vs_norm>>
        /\ UNCHANGED non_norm_vars

set_upper_keys ==
    \E v \in BOOLEAN \ {upper_keys} :
        /\ upper_keys' = v
        /\ Rerun(compare_data_clicked, agg_choice, v, strip_keys, clamp_negative)
        /\ UNCHANGED <<csv_rows, agg_choice, strip_keys, clamp_negative,
                       compare_data_clicked, vs_norm>>
        /\ UNCHANGED non_norm_vars

set_strip_keys ==
    \E v \in BOOLEAN \ {strip_keys} :
        /\ strip_keys' = v
        /\ Rerun(compare_data_clicked, agg_choice, upper_keys, v, clamp_negative)
        /\ UNCHANGED <<csv_rows, agg_choice, upper_keys, clamp_negative,
                       compare_data_clicked, vs_norm>>
        /\ UNCHANGED non_norm_vars

set_clamp_negative ==
    \E v \in BOOLEAN \ {clamp_negative} :
        /\ clamp_negative' = v
        /\ Rerun(compare_data_clicked, agg_choice, upper_keys, strip_keys, v)
        /\ UNCHANGED <<csv_rows, agg_choice, upper_keys, strip_keys,
                       compare_data_clicked, vs_norm>>
        /\ UNCHANGED non_norm_vars

\* inventory_reconcile_gui.load_and_normalize on the same file
load_and_normalize ==
    /\ vs_norm' = normalize_vs(csv_rows)
    /\ UNCHANGED <<csv_rows, agg_choice, upper_keys, strip_keys, clamp_negative,
                   compare_data_clicked, a_grp>>
    /\ UNCHANGED non_norm_vars

NextNorm ==
    \/ click_compare
    \/ set_agg_choice
    \/ set_upper_keys
    \/ set_strip_keys
    \/ set_clamp_negative
    \/ load_and_normalize

SpecNorm == InitNorm /\ [][NextNorm]_vars

(* ============================ Reconciliation ========================== *)
(* inventory_reconcile_gui.py (run_cycle and the SQL it runs) and the     *)
(* merge and KPI counts of streamlit_app.py, on the same pair of files    *)

\* the files of the model: the HNAU export holds A and a B whose quantity is
\* not a number, the Virtualstock feed A in and out of stock and B in stock
SkuB == Txt(<<"B">>)
HnauRows == {CsvRow(SkuA, AccS, Txt(<<"5">>)), CsvRow(SkuB, AccS, Txt(<<"x">>))}
VsRows == {CsvRow(SkuA, AccS, Txt(<<"5">>)), CsvRow(SkuA, AccS, Txt(<<"0">>)),
           CsvRow(SkuB, AccS, Txt(<<"7">>))}
HnauFiles == SeqsUpTo(HnauRows, MaxRows)
VsFiles == SeqsUpTo(VsRows, MaxRows)

\* the sku column of a normalized table and the quantity of a sku
SkusOf(tbl) == {r.sku : r \in tbl}
QtyAt(tbl, k) == (CHOOSE r \in tbl : r.sku = k).qty

\* a nullable INTEGER of a joined row: h.qty or v.qty of a LEFT JOIN
JoinedQty(tbl, k) == IF k \in SkusOf(tbl) THEN Num(QtyAt(tbl, k)) ELSE Null
COALESCE(v, d) == IF v.t = "null" THEN d ELSE v.n

\* a row of the CTE joined
JoinedRow(h, v, k, status) ==
    [sku |-> k, hnau_qty |-> JoinedQty(h, k), vs_qty |-> JoinedQty(v, k),
     qty_diff |-> COALESCE(JoinedQty(v, k), 0) - COALESCE(JoinedQty(h, k), 0),
     status |-> status]

\* variant: only the first SELECT of the CTE, hnau_norm LEFT JOIN vs_norm
joined_LeftJoinOnly(h, v) ==
    {JoinedRow(h, v, k,
               IF k \notin SkusOf(v) THEN "ONLY_IN_HNAU"
               ELSE IF QtyAt(h, k) = QtyAt(v, k) THEN "MATCH"
               ELSE "QTY_MISMATCH") : k \in SkusOf(h)}

\* WITH joined AS (hnau_norm LEFT JOIN vs_norm UNION ALL the vs_norm rows
\* without a hnau_norm row)
joined(h, v) ==
    {JoinedRow(h, v, k,
               IF k \notin SkusOf(v) THEN "ONLY_IN_HNAU"
               ELSE IF QtyAt(h, k) = QtyAt(v, k) THEN "MATCH"
               ELSE "QTY_MISMATCH") : k \in SkusOf(h)}
        \cup {JoinedRow(h, v, k, "ONLY_IN_VS") : k \in SkusOf(v) \ SkusOf(h)}

\* SUM(CASE WHEN ... THEN 1 ELSE 0 END) over the rows: NULL over no rows
SumCase(rows, matching) == IF rows = {} THEN Null ELSE Num(Cardinality(matching))

hnau_in_vs_out_rows(j) ==
    {r \in j : COALESCE(r.hnau_qty, 0) > 0 /\ COALESCE(r.vs_qty, 0) <= 0}
vs_in_hnau_out_rows(j) ==
    {r \in j : COALESCE(r.vs_qty, 0) > 0 /\ COALESCE(r.hnau_qty, 0) <= 0}

\* compute_joined_and_stats: stats_sql and the two in/out result sets
stats_sql(h, v, j) ==
    [hnau_rows |-> Cardinality(h), vs_rows |-> Cardinality(v),
     matches |-> SumCase(j, {r \in j : r.status = "MATCH"}),
     qty_mismatches |-> SumCase(j, {r \in j : r.status = "QTY_MISMATCH"}),
     only_in_hnau |-> SumCase(j, {r \in j : r.status = "ONLY_IN_HNAU"}),
     only_in_vs |-> SumCase(j, {r \in j : r.status = "ONLY_IN_VS"}),
     hnau_in_vs_out |-> SumCase(j, hnau_in_vs_out_rows(j)),
     vs_in_hnau_out |-> SumCase(j, vs_in_hnau_out_rows(j))]
compute_joined_and_stats(h, v) ==
    [stats_df |-> stats_sql(h, v, joined(h, v)),
     h_in_v_out |-> {r.sku : r \in hnau_in_vs_out_rows(joined(h, v))},
     v_in_h_out |-> {r.sku : r \in vs_in_hnau_out_rows(joined(h, v))}]

\* upsert_inventory_latest_from_vs_norm: the table is emptied and refilled,
\* a NULL account becomes ''
AccountText(x) == IF x.kind = "str" THEN x.txt ELSE <<>>
upsert_inventory_latest_from_vs_norm(v) ==
    {[Account |-> AccountText(r.account), SupplierSKU |-> r.sku.txt,
      FreeStock |-> Num(r.qty)] : r \in v}

\* compare_tables: inventory_latest LEFT OUTER JOIN inventory on SupplierSKU,
\* the rows whose two FreeStock differ are counted
PrevFreeStock(inv, sku) ==
    IF \E r \in inv : r.SupplierSKU = sku
    THEN (CHOOSE r \in inv : r.SupplierSKU = sku).FreeStock
    ELSE Null
compare_tables(latest, inv) ==
    Cardinality({r \in latest : r.FreeStock # PrevFreeStock(inv, r.SupplierSKU)})

\* variant: the rows of inventory_latest are merged into inventory, nothing
\* is deleted first
update_inventory_Merged(latest, inv) ==
    latest \cup {r \in inv : \A l \in latest : l.SupplierSKU # r.SupplierSKU}

\* update_inventory_from_latest: inventory is emptied and refilled
update_inventory_from_latest(latest, inv) == latest

\* streamlit_app main flow, "Merge (outer)" to the flags: qty_wh of the
\* warehouse frame against qty_wh of the e-commerce frame (its qty_ecom)
GrpKeys(grp) == {<<r.sku_key, r.account_key>> : r \in grp}
GrpQty(grp, k) ==
    IF k \in GrpKeys(grp)
    THEN (CHOOSE r \in grp : <<r.sku_key, r.account_key>> = k).qty_wh
    ELSE NaNQty
fillna0(q) == IF q.kind = "nan" THEN Q(0, 1) ELSE q
MergedRow(k, q_wh, q_ecom) ==
    [sku_key |-> k[1], account_key |-> k[2],
     present_wh |-> q_wh.kind # "nan", present_ecom |-> q_ecom.kind # "nan",
     qty_wh |-> fillna0(q_wh), qty_ecom |-> fillna0(q_ecom),
     in_stock_wh |-> QLess(Q(0, 1), fillna0(q_wh)),
     in_stock_ecom |-> QLess(Q(0, 1), fillna0(q_ecom))]

\* pd.merge(..., how="outer"), one row per key of either frame
Merge(a, b) ==
    {MergedRow(k, GrpQty(a, k), GrpQty(b, k)) : k \in GrpKeys(a) \cup GrpKeys(b)}

\* KPI counts
KpiCounts(m) ==
    [total_records |-> Cardinality(m),
     wh_only_count |-> Cardinality({r \in m : r.present_wh /\ ~r.present_ecom}),
     ecom_only_count |-> Cardinality({r \in m : ~r.present_wh /\ r.present_ecom}),
     both_sources_count |-> Cardinality({r \in m : r.present_wh /\ r.present_ecom}),
     wh_stock_ecom_oos |-> Cardinality({r \in m : r.in_stock_wh /\ ~r.in_stock_ecom}),
     ecom_stock_wh_oos |-> Cardinality({r \in m : r.in_stock_ecom /\ ~r.in_stock_wh})]

\* one of the two programs is started on an HNAU export, with a fresh database
InitRecon ==
    /\ EngineIdle
    /\ NormIdle
    /\ ChunkIdle
    /\ ThreadsIdle
    /\ program \in {"reconcile", "streamlit"}
    /\ hnau_csv \in HnauFiles
    /\ hnau_norm = [state |-> "none", rows |-> {}]
    /\ inventory_latest = {}
    /\ inventory = {}
    /\ stats_df = NoSqlStats
    /\ datasets = [h_in_v_out |-> {}, v_in_h_out |-> {}]
    /\ cycle = NoCycle
    /\ b_grp = {}
    /\ merged = {}
    /\ kpi = NoKpi

\* the steps of run_cycle on the normalized frames h and v; the exports do not
\* change the database
RunCycleOn(h, v, do_update) ==
    LET res == compute_joined_and_stats(h.rows, v.rows)
        latest == upsert_inventory_latest_from_vs_norm(v.rows)
    IN /\ hnau_norm' = h
       /\ vs_norm' = v
       /\ stats_df' = res.stats_df
       /\ datasets' = [h_in_v_out |-> res.h_in_v_out, v_in_h_out |-> res.v_in_h_out]
       /\ inventory_latest' = latest
       /\ inventory' = IF do_update THEN update_inventory_from_latest(latest, inventory)
                       ELSE inventory
       /\ cycle' = [state |-> "done", do_update |-> do_update,
                    changes |-> compare_tables(latest, inventory)]

\* run_cycle on the HNAU export and the Virtualstock feed vs_csv; an exception
\* of load_and_normalize leaves the database as it was
run_cycle ==
    \E vs_csv \in VsFiles, do_update \in BOOLEAN :
        /\ program = "reconcile"
        /\ IF normalize_vs(hnau_csv).state = "raised" \/ normalize_vs(vs_csv).state = "raised"
           THEN /\ cycle' = [state |-> "error", do_update |-> do_update, changes |-> 0]
                /\ UNCHANGED <<hnau_norm, vs_norm, stats_df, datasets,
                               inventory_latest, inventory>>
           ELSE RunCycleOn(normalize_vs(hnau_csv), normalize_vs(vs_csv), do_update)
        /\ UNCHANGED <<program, hnau_csv, b_grp, merged, kpi>>
        /\ UNCHANGED <<csv_rows, agg_choice, upper_keys, strip_keys, clamp_negative,
                       compare_data_clicked, a_grp>>
        /\ UNCHANGED <<engine_vars, chunk_vars, thread_vars>>

\* the Streamlit comparison of the HNAU export (warehouse) with the e-commerce
\* upload ecom_csv, with the settings of the side bar
CompareFrames(a, b) ==
    /\ a_grp' = a
    /\ b_grp' = b
    /\ merged' = Merge(a, b)
    /\ kpi' = KpiCounts(Merge(a, b))
compare_data ==
    \E ecom_csv \in VsFiles :
        /\ program = "streamlit"
        /\ compare_data_clicked' = TRUE
        /\ CompareFrames(MainFlow(hnau_csv, agg_choice, upper_keys, strip_keys, clamp_negative),
                         MainFlow(ecom_csv, agg_choice, upper_keys, strip_keys, clamp_negative))
        /\ UNCHANGED <<program, hnau_csv, hnau_norm, inventory_latest, inventory,
                       stats_df, datasets, cycle>>
        /\ UNCHANGED <<csv_rows, agg_choice, upper_keys, strip_keys, clamp_negative, vs_norm>>
        /\ UNCHANGED <<engine_vars, chunk_vars, thread_vars>>

NextRecon == run_cycle \/ compare_data

SpecRecon == InitRecon /\ [][NextRecon]_vars

(* ============================== Chunking ============================== *)
(* StockImportApp._write_files, StockImportApp._iter_msi_batches and      *)
(* prepare_stock_import.prepare_magento2_import                           *)

\* the largest chunk / batch size of the model
MaxChunk == 3

ItemRows == {<<"A", 5>>, <<"B", 0>>}
SourceLists == {<<"pos_337">>, <<"pos_337", "src_virtualstock">>}

\* stock_status = 1 if (qty or 0) > 0 else 0
stock_status(qty) == IF qty > 0 THEN 1 ELSE 0

\* the data rows of one (sku, qty), one per source code
RECURSIVE RowsPerSource(_, _)
RowsPerSource(row, srcs) ==
    IF srcs = <<>> THEN <<>>
    ELSE <<[sku |-> row[1], stock_status |-> stock_status(row[2]),
            source_code |-> Head(srcs), qty |-> row[2]]>>
             \o RowsPerSource(row, Tail(srcs))

RECURSIVE DataRows(_, _)
DataRows(rows, srcs) ==
    IF rows = <<>> THEN <<>>
    ELSE RowsPerSource(Head(rows), srcs) \o DataRows(Tail(rows), srcs)

\* _write_files, the body of the inner loop: the row is written to the open
\* file, which rotate() replaces by a new one once it holds chunk rows
WriteRow(files, per_file_rows, row, chunk) ==
    IF per_file_rows + 1 >= chunk
    THEN [files |-> Append([files EXCEPT ![Len(files)] = Append(@, row)], <<>>),
          per_file_rows |-> 0]
    ELSE [files |-> [files EXCEPT ![Len(files)] = Append(@, row)],
          per_file_rows |-> per_file_rows + 1]

RECURSIVE WriteLoop(_, _, _)
WriteLoop(st, data, chunk) ==
    IF data = <<>> THEN st.files
    ELSE WriteLoop(WriteRow(st.files, st.per_file_rows, Head(data), chunk), Tail(data), chunk)

\* _write_files on the rows it gets to before cancel_event is found set: the
\* first file is opened before the loop
write_files(rows, srcs, chunk) ==
    WriteLoop([files |-> <<<<>>>>, per_file_rows |-> 0], DataRows(rows, srcs), chunk)

\* _iter_msi_batches: a batch is yielded once it holds batch_size items, and
\* what is left at the end if it is not empty
RECURSIVE BatchLoop(_, _, _, _)
BatchLoop(yielded, batch, items, batch_size) ==
    IF items = <<>> THEN (IF batch # <<>> THEN Append(yielded, batch) ELSE yielded)
    ELSE IF Len(batch) + 1 >= batch_size
    THEN BatchLoop(Append(yielded, Append(batch, Head(items))), <<>>, Tail(items), batch_size)
    ELSE BatchLoop(yielded, Append(batch, Head(items)), Tail(items), batch_size)

iter_msi_batches(rows, srcs, batch_size) ==
    BatchLoop(<<>>, <<>>, DataRows(rows, srcs), batch_size)

\* prepare_magento2_import, the loop: both rows of a sku are written, then
\* row_counter is compared with chunk_size
RECURSIVE ImportLoop(_, _, _, _)
ImportLoop(files, row_counter, changes, chunk) ==
    IF changes = <<>> THEN files
    ELSE LET written == [files EXCEPT ![Len(files)] =
                            @ \o RowsPerSource(Head(changes), <<"pos_337", "src_virtualstock">>)]
         IN IF row_counter + 2 >= chunk
            THEN ImportLoop(Append(written, <<>>), 0, Tail(changes), chunk)
            ELSE ImportLoop(written, row_counter + 2, Tail(changes), chunk)

\* prepare_magento2_import: no file without changes
prepare_magento2_import(changes, chunk) ==
    IF changes = <<>> THEN <<>> ELSE ImportLoop(<<<<>>>>, 0, changes, chunk)

\* rows to write, a positive chunk size (_validate_chunk) and source codes
InitChunk ==
    /\ EngineIdle
    /\ NormIdle
    /\ ThreadsIdle
    /\ program = "reconcile"
    /\ hnau_csv = <<>>
    /\ hnau_norm = [state |-> "none", rows |-> {}]
    /\ inventory_latest = {}
    /\ inventory = {}
    /\ stats_df = NoSqlStats
    /\ datasets = [h_in_v_out |-> {}, v_in_h_out |-> {}]
    /\ cycle = NoCycle
    /\ b_grp = {}
    /\ merged = {}
    /\ kpi = NoKpi
    /\ ch_rows \in SeqsUpTo(ItemRows, MaxRows)
    /\ chunk_size \in 1..MaxChunk
    /\ sources \in SourceLists
    /\ out_files = <<>>
    /\ msi_batches = <<>>
    /\ import_files = <<>>

\* StockImportApp._write_files; Cancel ends the loop before the row n + 1
write_files_run ==
    \E n \in 0..Len(ch_rows) :
        /\ out_files' = write_files(SubSeq(ch_rows, 1, n), sources, chunk_size)
        /\ UNCHANGED <<ch_rows, chunk_size, sources, msi_batches, import_files>>
        /\ UNCHANGED <<engine_vars, norm_vars, recon_vars, thread_vars>>

\* the batches of StockImportApp._iter_msi_batches
iter_msi_batches_run ==
    /\ msi_batches' = iter_msi_batches(ch_rows, sources, chunk_size)
    /\ UNCHANGED <<ch_rows, chunk_size, sources, out_files, import_files>>
    /\ UNCHANGED <<engine_vars, norm_vars, recon_vars, thread_vars>>

\* prepare_stock_import.prepare_magento2_import with the rows as the changes
prepare_magento2_import_run ==
    /\ import_files' = prepare_magento2_import(ch_rows, chunk_size)
    /\ UNCHANGED <<ch_rows, chunk_size, sources, out_files, msi_batches>>
    /\ UNCHANGED <<engine_vars, norm_vars, recon_vars, thread_vars>>

NextChunk == write_files_run \/ iter_msi_batches_run \/ prepare_magento2_import_run

SpecChunk == InitChunk /\ [][NextChunk]_vars

(* =============================== Workers ============================== *)
(* the worker threads of StockImportApp (Start buttons, Cancel) and of    *)
(* InventoryGUIApp (start, stop, _run_csv_once, _run_sftp_loop)           *)

\* the most threads an application creates, and the longest poll wait
MaxThreads == 2
MaxPoll == 2

\* variant: the Start handlers do not look at the worker
WorkerAlive_Unchecked(threads) == FALSE

\* self.worker and self.worker.is_alive(): a thread is its position, "dead"
\* once its target has returned
WorkerAlive(threads) == threads # <<>> /\ threads[Len(threads)] # "dead"

\* the threads of the application that have not returned
AliveIn(threads) == {i \in DOMAIN threads : threads[i] # "dead"}

\* both applications after construction: no worker, both events clear; the
\* poll interval is the one entered in the window
InitWorkers ==
    /\ EngineIdle
    /\ NormIdle
    /\ ChunkIdle
    /\ program = "reconcile"
    /\ hnau_csv = <<>>
    /\ hnau_norm = [state |-> "none", rows |-> {}]
    /\ inventory_latest = {}
    /\ inventory = {}
    /\ stats_df = NoSqlStats
    /\ datasets = [h_in_v_out |-> {}, v_in_h_out |-> {}]
    /\ cycle = NoCycle
    /\ b_grp = {}
    /\ merged = {}
    /\ kpi = NoKpi
    /\ sia_threads = <<>>
    /\ cancel_event = FALSE
    /\ sia_observed = FALSE
    /\ rg_threads = <<>>
    /\ stop_event = FALSE
    /\ sftp_open = FALSE
    /\ wait_left = 0
    /\ poll_secs \in 0..MaxPoll

\* what the steps of StockImportApp, and of InventoryGUIApp, leave alone
UnchangedBySia ==
    /\ UNCHANGED <<rg_threads, stop_event, sftp_open, wait_left, poll_secs>>
    /\ UNCHANGED <<engine_vars, norm_vars, recon_vars, chunk_vars>>
UnchangedByRg ==
    /\ UNCHANGED <<sia_threads, cancel_event, sia_observed, poll_secs>>
    /\ UNCHANGED <<engine_vars, norm_vars, recon_vars, chunk_vars>>

\* _start_db, _start_file, _start_api_db, _start_api_file: nothing while the
\* worker is alive (or the inputs are invalid), else the thread is created and
\* started; its first statement is cancel_event.clear()
StartWorker ==
    /\ ~WorkerAlive(sia_threads)
    /\ Len(sia_threads) < MaxThreads
    /\ sia_threads' = Append(sia_threads, "clear")
    /\ sia_observed' = FALSE
    /\ UNCHANGED cancel_event
    /\ UnchangedBySia
start_db == StartWorker
start_file == StartWorker
start_api_db == StartWorker
start_api_file == StartWorker

\* StockImportApp._cancel
cancel ==
    /\ WorkerAlive(sia_threads)
    /\ cancel_event' = TRUE
    /\ UNCHANGED <<sia_threads, sia_observed>>
    /\ UnchangedBySia

\* a step of a worker of StockImportApp: cancel_event.clear() at its start,
\* then the work, which tests cancel_event before each row or batch and may end
\* without a test (nothing to do, or the last row is done), then _after_run
\* (_after_run_api) with its cancel_event.clear()
run_worker ==
    \E i \in AliveIn(sia_threads) :
        /\ \/ /\ sia_threads[i] = "clear"
              /\ cancel_event' = FALSE
              /\ sia_threads' = [sia_threads EXCEPT ![i] = "work"]
              /\ UNCHANGED sia_observed
           \/ /\ sia_threads[i] = "work"
              /\ cancel_event
              /\ sia_observed' = TRUE
              /\ sia_threads' = [sia_threads EXCEPT ![i] = "after_run"]
              /\ UNCHANGED cancel_event
           \/ /\ sia_threads[i] = "work"
              /\ sia_threads' = [sia_threads EXCEPT ![i] = "after_run"]
              /\ UNCHANGED <<cancel_event, sia_observed>>
           \/ /\ sia_threads[i] = "after_run"
              /\ cancel_event' = FALSE
              /\ sia_threads' = [sia_threads EXCEPT ![i] = "dead"]
              /\ UNCHANGED sia_observed
        /\ UnchangedBySia

\* InventoryGUIApp.start: nothing while the worker is alive; else stop_event
\* is cleared and, unless the files are missing (paramiko is missing), the
\* thread of the chosen mode is created and started
start ==
    /\ ~WorkerAlive(rg_threads)
    /\ stop_event' = FALSE
    /\ \/ UNCHANGED rg_threads
       \/ /\ Len(rg_threads) < MaxThreads
          /\ \E target \in {"run_csv_once", "sftp_connect"} :
                rg_threads' = Append(rg_threads, target)
    /\ UNCHANGED <<sftp_open, wait_left>>
    /\ UnchangedByRg

\* InventoryGUIApp.stop
stop ==
    /\ stop_event' = TRUE
    /\ UNCHANGED <<rg_threads, sftp_open, wait_left>>
    /\ UnchangedByRg

\* variant: the poll wait sleeps all its seconds
PollWait_Unchecked(i) ==
    IF wait_left = 0
    THEN /\ rg_threads' = [rg_threads EXCEPT ![i] = "while"]
         /\ UNCHANGED wait_left
    ELSE /\ wait_left' = wait_left - 1
         /\ UNCHANGED rg_threads

\* for _ in range(poll_secs): if stop_event.is_set(): break; time.sleep(1)
PollWait(i) ==
    IF wait_left = 0 \/ stop_event
    THEN /\ rg_threads' = [rg_threads EXCEPT ![i] = "while"]
         /\ UNCHANGED wait_left
    ELSE /\ wait_left' = wait_left - 1
         /\ UNCHANGED rg_threads

\* a step of a worker of InventoryGUIApp: _run_csv_once, or _run_sftp_loop from
\* the connection (which may fail) over the test of the while loop, the cycle
\* (whose exceptions are logged) and the poll wait to the closing
run_loop ==
    \E i \in AliveIn(rg_threads) :
        /\ \/ /\ rg_threads[i] = "run_csv_once"
              /\ rg_threads' = [rg_threads EXCEPT ![i] = "dead"]
              /\ UNCHANGED <<sftp_open, wait_left>>
           \/ /\ rg_threads[i] = "sftp_connect"
              /\ \/ /\ rg_threads' = [rg_threads EXCEPT ![i] = "while"]
                    /\ sftp_open' = TRUE
                 \/ /\ rg_threads' = [rg_threads EXCEPT ![i] = "dead"]
                    /\ UNCHANGED sftp_open
              /\ UNCHANGED wait_left
           \/ /\ rg_threads[i] = "while"
              /\ rg_threads' = [rg_threads EXCEPT ![i] = IF stop_event THEN "close" ELSE "cycle"]
              /\ UNCHANGED <<sftp_open, wait_left>>
           \/ /\ rg_threads[i] = "cycle"
              /\ rg_threads' = [rg_threads EXCEPT ![i] = "wait"]
              /\ wait_left' = poll_secs
              /\ UNCHANGED sftp_open
           \/ /\ rg_threads[i] = "wait"
              /\ PollWait(i)
              /\ UNCHANGED sftp_open
           \/ /\ rg_threads[i] = "close"
              /\ rg_threads' = [rg_threads EXCEPT ![i] = "dead"]
              /\ sftp_open' = FALSE
              /\ UNCHANGED wait_left
        /\ UNCHANGED stop_event
        /\ UnchangedByRg

NextWorkers ==
    \/ start_db
    \/ start_file
    \/ start_api_db
    \/ start_api_file
    \/ cancel
    \/ run_worker
    \/ start
    \/ stop
    \/ run_loop

SpecWorkers == InitWorkers /\ [][NextWorkers]_vars

\* the worker of InventoryGUIApp is a thread of its own, which the scheduler
\* runs again and again; a cycle in progress is taken to end
SpecWorkersFair == SpecWorkers /\ WF_vars(run_loop)

(* ======================= properties of the engine ===================== *)
\* the keys of a raw table, and the first raw row of a key
RawKeys(df) == {df.rows[i].key : i \in DOMAIN df.rows}
FirstRow(df, k) ==
    df.rows[CHOOSE i \in DOMAIN df.rows :
                /\ df.rows[i].key = k
                /\ \A j \in DOMAIN df.rows : df.rows[j].key = k => i <= j]
\* the records of a diff or the rows of a table that carry key k
RecordsOf(rows, k) == {i \in DOMAIN rows : rows[i].key = k}
\* what Compare asked compute_diff_multi to compare
Requested == IF compare_cols # {} THEN compare_cols ELSE CfgCompareCols

\* C1 (partition completeness): after Compare, added + removed + modified + same
\* is the number of keys in keys(src) \cup keys(tgt).
C1_PartitionCompleteness ==
    df_loaded =>
        stats.added + stats.removed + stats.modified + stats.same
            = Cardinality(RawKeys(df_src) \cup RawKeys(df_tgt))

C1_Witness ==
    /\ df_loaded
    /\ stats.added > 0 /\ stats.removed > 0 /\ stats.same > 0
    /\ Len(df_src.rows) = 2

\* C2 (idempotent sync): for every choice of sync columns, syncing src into the
\* table a first sync of src produced yields the same table and the same count.
\* Checked on every pair of tables the session holds: the pair it starts with
\* and every pair with a target that Apply Sync has just written.
C2_IdempotentSync ==
    log \in {"start", "applied"} =>
        \A sc \in SUBSET Cols :
            LET first == apply_sync_multi(src_tbl, tgt_tbl, sc)
                second == apply_sync_multi(src_tbl, first.out, sc)
            IN second.out = first.out /\ second.n = first.n

\* Apply Sync has run a second time on the first scenario of section 8: the
\* target it read is the three-row table the first run wrote (B inserted), and
\* it has written it back unchanged, touching the two source rows again
C2_Witness ==
    /\ log = "applied"
    /\ df_src = ScenarioSrc
    /\ df_tgt = tgt_tbl
    /\ Len(tgt_tbl.rows) = 3
    /\ n_up = 2

\* C3 (sync never deletes): right after Apply Sync, every key of the target that
\* the source lacks is still in the written table, once, with its row unchanged.
C3_SyncNeverDeletes ==
    log = "applied" =>
        \A k \in RawKeys(df_tgt) \ RawKeys(df_src) :
            /\ Cardinality(RecordsOf(tgt_tbl.rows, k)) = 1
            /\ FirstRow(tgt_tbl, k).vals = FirstRow(df_tgt, k).vals

C3_Witness ==
    /\ log = "applied"
    /\ RawKeys(df_tgt) \ RawKeys(df_src) # {}
    /\ RawKeys(df_tgt) \cap RawKeys(df_src) # {}
    /\ tgt_tbl # df_tgt

\* every ordering of a sequence of rows
RECURSIVE Orderings(_)
Orderings(rows) ==
    IF rows = <<>> THEN {<<>>}
    ELSE UNION {{<<rows[i]>> \o p :
                   p \in Orderings([j \in 1..(Len(rows) - 1) |->
                                          IF j < i THEN rows[j] ELSE rows[j + 1]])} :
                i \in DOMAIN rows}

\* C4 (symmetry of absence): for every ordering of the rows of either input, a
\* key only in the source gets one record, "added", and a key only in the
\* target gets one record, "removed".
C4_SymmetryOfAbsence ==
    log = "compared" =>
        \A ps \in Orderings(df_src.rows), pt \in Orderings(df_tgt.rows) :
            LET d == compute_diff_multi([df_src EXCEPT !.rows = ps],
                                        [df_tgt EXCEPT !.rows = pt], Requested).diff_df
            IN /\ \A k \in RawKeys(df_src) \ RawKeys(df_tgt) :
                     /\ Cardinality(RecordsOf(d, k)) = 1
                     /\ \A i \in RecordsOf(d, k) : d[i].change = "added"
               /\ \A k \in RawKeys(df_tgt) \ RawKeys(df_src) :
                     /\ Cardinality(RecordsOf(d, k)) = 1
                     /\ \A i \in RecordsOf(d, k) : d[i].change = "removed"

C4_Witness ==
    /\ log = "compared"
    /\ RawKeys(df_src) \ RawKeys(df_tgt) # {}
    /\ RawKeys(df_tgt) \ RawKeys(df_src) # {}
    /\ Len(df_src.rows) = 2 /\ df_src.rows[1] # df_src.rows[2]

\* the rows of a table whose key is in ks
Restrict(df, ks) == [df EXCEPT !.rows = SelectSeq(df.rows, LAMBDA r : r.key \in ks)]

\* C5 (flip symmetry): for every compared column the two flip counts add up to
\* at most |keys(src) \cap keys(tgt)|, and they are the counts obtained with the
\* one-sided keys removed from both tables.
C5_FlipSymmetry ==
    df_loaded =>
        LET common == RawKeys(df_src) \cap RawKeys(df_tgt)
            inner == compute_diff_multi(Restrict(df_src, common), Restrict(df_tgt, common),
                                        DOMAIN stats.in_stock_flips).stats.in_stock_flips
        IN \A c \in DOMAIN stats.in_stock_flips :
              /\ stats.in_stock_flips[c].src_in_tgt_out + stats.in_stock_flips[c].src_out_tgt_in
                    <= Cardinality(common)
              /\ stats.in_stock_flips[c] = inner[c]

\* a compared column with a flip on a common key and a stocked one-sided key
C5_Witness ==
    /\ df_loaded
    /\ "FreeStock" \in DOMAIN stats.in_stock_flips
    /\ stats.in_stock_flips["FreeStock"].src_in_tgt_out = 1
    /\ \E k \in RawKeys(df_src) \ RawKeys(df_tgt) : is_in_stock(FirstRow(df_src, k).vals["FreeStock"])

\* Compare has run on the first scenario of section 8
InScenario1 == df_loaded /\ df_src = ScenarioSrc /\ df_tgt = ScenarioTgt1
\* Compare has run on the second scenario of section 8
InScenario2 == df_loaded /\ df_src = ScenarioSrc /\ df_tgt = ScenarioTgt2

\* C6 as stated (end-to-end scenario): same = 1, removed = 1, added = 0,
\* modified = 0 and the only diff record is C, "removed".
C6_AsStated ==
    InScenario1 =>
        /\ stats.same = 1 /\ stats.removed = 1 /\ stats.added = 0 /\ stats.modified = 0
        /\ Len(diff_df.rows) = 1
        /\ diff_df.rows[1].key = "C" /\ diff_df.rows[1].change = "removed"

\* C6 amended: B, which only the source has, is "added": same = 1, removed = 1,
\* added = 1, modified = 0 and the diff records are B "added" and C "removed".
C6_EndToEndScenario ==
    InScenario1 =>
        /\ stats.same = 1 /\ stats.removed = 1 /\ stats.added = 1 /\ stats.modified = 0
        /\ {[key |-> diff_df.rows[i].key, change |-> diff_df.rows[i].change] :
                i \in DOMAIN diff_df.rows}
             = {[key |-> "B", change |-> "added"], [key |-> "C", change |-> "removed"]}
        /\ Len(diff_df.rows) = 2

C6_Witness == InScenario1 /\ log = "compared"

\* C7 (scenario with modification): modified = 1, added = 1, removed = 0,
\* per_column_modified[qty] = 1 and both flip counts of qty are 0.
C7_ScenarioWithModification ==
    InScenario2 =>
        /\ stats.modified = 1 /\ stats.added = 1 /\ stats.removed = 0
        /\ stats.per_column_modified["FreeStock"] = 1
        /\ stats.in_stock_flips["FreeStock"].src_in_tgt_out = 0
        /\ stats.in_stock_flips["FreeStock"].src_out_tgt_in = 0
        /\ \E i \in DOMAIN diff_df.rows :
              diff_df.rows[i].key = "B" /\ diff_df.rows[i].change = "added"

C7_Witness == InScenario2 /\ log = "compared"

\* C10 (nothing to compare): Compare never classifies keys when no requested
\* column is a column of both tables; the caller is told instead.
C10_NothingToCompare ==
    log = "compared" => EffectiveCols(df_src, df_tgt, Requested) # {}

\* the row of key k in the table out is the target row with exactly the
\* columns synced overwritten by the source values
SyncedRow(out, df_s, df_t, synced, k) ==
    /\ Cardinality(RecordsOf(out.rows, k)) = 1
    /\ \A c \in df_t.cols :
          FirstRow(out, k).vals[c] = IF c \in synced THEN FirstRow(df_s, k).vals[c]
                                     ELSE FirstRow(df_t, k).vals[c]

\* C11 (frame of the update): on every key of both tables the sync overwrites
\* exactly the columns of sync_columns_final with the source values and leaves
\* every other column of the target row as it was; for the table Apply Sync
\* wrote and for every other choice of sync columns on the same pair.
C11_SyncFrame ==
    log = "applied" =>
        /\ tgt_tbl.cols = df_tgt.cols
        /\ \A k \in RawKeys(df_src) \cap RawKeys(df_tgt) :
              SyncedRow(tgt_tbl, df_src, df_tgt,
                        CfgSyncCols \cap df_src.cols \cap df_tgt.cols, k)
        /\ \A sc \in SUBSET Cols :
              \A k \in RawKeys(df_src) \cap RawKeys(df_tgt) :
                  SyncedRow(apply_sync_multi(df_src, df_tgt, sc).out, df_src, df_tgt,
                            sc \cap df_src.cols \cap df_tgt.cols, k)

\* Apply Sync has overwritten FreeStock of a common key whose target row has
\* an Account the source table does not carry
C11_Witness ==
    /\ log = "applied"
    /\ df_src.cols = {"FreeStock"} /\ df_tgt.cols = Cols
    /\ \E k \in RawKeys(df_src) \cap RawKeys(df_tgt) :
          /\ FirstRow(df_tgt, k).vals["Account"] = Str("x")
          /\ FirstRow(df_src, k).vals["FreeStock"] # FirstRow(df_tgt, k).vals["FreeStock"]
          /\ FirstRow(tgt_tbl, k).vals["Account"] = Str("x")
          /\ FirstRow(tgt_tbl, k).vals["FreeStock"] = FirstRow(df_src, k).vals["FreeStock"]

\* the table out holds key k once, with the synced columns of the source row
\* and every other column null
InsertedRow(out, df_s, df_t, synced, k) ==
    /\ Cardinality(RecordsOf(out.rows, k)) = 1
    /\ \A c \in df_t.cols :
          FirstRow(out, k).vals[c] = IF c \in synced THEN FirstRow(df_s, k).vals[c] ELSE Null

\* C12 (insertion of added keys): every key of the source that the target
\* lacks is inserted exactly once, its synced columns taken from the source row
\* and every other target column null; also when no column is synced.
C12_AddedInserted ==
    log = "applied" =>
        /\ \A k \in RawKeys(df_src) \ RawKeys(df_tgt) :
              InsertedRow(tgt_tbl, df_src, df_tgt,
                          CfgSyncCols \cap df_src.cols \cap df_tgt.cols, k)
        /\ \A sc \in SUBSET Cols :
              \A k \in RawKeys(df_src) \ RawKeys(df_tgt) :
                  InsertedRow(apply_sync_multi(df_src, df_tgt, sc).out, df_src, df_tgt,
                              sc \cap df_src.cols \cap df_tgt.cols, k)

\* Apply Sync has inserted a key with the FreeStock of the source and a null
\* Account, the source table having no Account column
C12_Witness ==
    /\ log = "applied"
    /\ df_src.cols = {"FreeStock"} /\ df_tgt.cols = Cols
    /\ \E k \in RawKeys(df_src) \ RawKeys(df_tgt) :
          /\ FirstRow(df_src, k).vals["FreeStock"] = Num(5)
          /\ FirstRow(tgt_tbl, k).vals["FreeStock"] = Num(5)
          /\ FirstRow(tgt_tbl, k).vals["Account"] = Null

\* C13 (touched-row count): the count apply_sync_multi returns is
\* |keys(tgt) \cap keys(src)| + |keys(src) \ keys(tgt)|, the number of distinct
\* source keys, whatever the sync columns are (none eligible included).
C13_TouchedCount ==
    log = "applied" =>
        LET expected == Cardinality(RawKeys(df_tgt) \cap RawKeys(df_src))
                          + Cardinality(RawKeys(df_src) \ RawKeys(df_tgt))
        IN /\ n_up = expected
           /\ n_up = Cardinality(RawKeys(df_src))
           /\ \A sc \in SUBSET Cols : apply_sync_multi(df_src, df_tgt, sc).n = expected

\* Apply Sync on a source of two raw rows for one key, which the target has
C13_Witness ==
    /\ log = "applied"
    /\ Len(df_src.rows) = 2
    /\ RawKeys(df_src) \subseteq RawKeys(df_tgt)
    /\ n_up = 1

\* the columns the last Compare compared
Compared == EffectiveCols(df_src, df_tgt, Requested)

\* two values are equal if both are null, or neither is and they are the same
ValuesEqual(a, b) == (isna(a) /\ isna(b)) \/ (~isna(a) /\ ~isna(b) /\ a = b)

\* the compared columns in which the rows of a key of both tables are unequal
Unequal(k) ==
    {c \in Compared : ~ValuesEqual(FirstRow(df_src, k).vals[c], FirstRow(df_tgt, k).vals[c])}

\* the class of a key of either table
ClassOf(k) ==
    IF k \notin RawKeys(df_tgt) THEN "added"
    ELSE IF k \notin RawKeys(df_src) THEN "removed"
    ELSE IF Unequal(k) # {} THEN "modified"
    ELSE "same"

\* C14 (change list): the diff records are one record per key classified
\* added, removed or modified and none for a key classified same, so there are
\* added + removed + modified of them, while the same keys are counted.
C14_ChangeList ==
    df_loaded =>
        /\ \A k \in RawKeys(df_src) \cup RawKeys(df_tgt) :
              IF ClassOf(k) = "same" THEN RecordsOf(diff_df.rows, k) = {}
              ELSE /\ Cardinality(RecordsOf(diff_df.rows, k)) = 1
                   /\ \A i \in RecordsOf(diff_df.rows, k) : diff_df.rows[i].change = ClassOf(k)
        /\ Len(diff_df.rows) = stats.added + stats.removed + stats.modified
        /\ stats.same = Cardinality({k \in RawKeys(df_src) \cup RawKeys(df_tgt) :
                                        ClassOf(k) = "same"})

\* Compare has found one key unchanged and another one changed
C14_Witness ==
    /\ df_loaded
    /\ stats.same = 1
    /\ Len(diff_df.rows) = 1
    /\ diff_df.rows[1].change \in {"modified", "removed"}

\* every cell of a raw table
CellsOf(df) == {df.rows[i].vals[c] : i \in DOMAIN df.rows, c \in df.cols}

\* C15 (value equality): on a key of both tables a compared column is equal
\* iff both values are null or neither is null and they are equal by value; the
\* key is "modified" iff some compared column is unequal, otherwise "same".
C15_ValueEquality ==
    df_loaded =>
        LET common == RawKeys(df_src) \cap RawKeys(df_tgt)
        IN /\ \A a \in CellsOf(df_src) \cup {Null}, b \in CellsOf(df_tgt) \cup {Null} :
                 CellDiffers(a, b) <=> ~ValuesEqual(a, b)
           /\ \A k \in common :
                 (\E i \in RecordsOf(diff_df.rows, k) : diff_df.rows[i].change = "modified")
                     <=> Unequal(k) # {}
           /\ stats.modified = Cardinality({k \in common : Unequal(k) # {}})
           /\ stats.same = Cardinality({k \in common : Unequal(k) = {}})

\* Compare on Account has met a text against a null on a key of both tables
\* and has recorded the key as modified
C15_Witness ==
    /\ df_loaded
    /\ "Account" \in Compared
    /\ \E k \in RawKeys(df_src) \cap RawKeys(df_tgt) :
          /\ FirstRow(df_src, k).vals["Account"] = Str("x")
          /\ FirstRow(df_tgt, k).vals["Account"] = Null
          /\ \E i \in RecordsOf(diff_df.rows, k) : diff_df.rows[i].change = "modified"

\* the tables that agree with df on the rows' keys and on the columns cc, the
\* cells of the other columns being arbitrary
Variants(df, cc) ==
    LET free == df.cols \ cc
        fills == {f \in [DOMAIN df.rows -> [free -> UNION {GenVals(c) : c \in free}]] :
                     \A i \in DOMAIN df.rows : \A c \in free : f[i][c] \in GenVals(c)}
    IN {[df EXCEPT !.rows = [i \in DOMAIN df.rows |->
                               [key |-> df.rows[i].key,
                                vals |-> [c \in df.cols |->
                                            IF c \in cc THEN df.rows[i].vals[c] ELSE f[i][c]]]]] :
            f \in fills}

\* C16 (non-compared columns are ignored): every table that agrees with the
\* source (with the target) on the keys and on the compared columns gets, against
\* the same other table, the same diff records and the same stats; a key whose
\* rows agree on the compared columns has no record.  Changing both tables is
\* changing one after the other, every pair of raw tables being compared in
\* some state.
C16_UncomparedIgnored ==
    log = "compared" =>
        /\ \A vs \in Variants(df_src, Compared) :
              compute_diff_multi(vs, df_tgt, Requested) = [diff_df |-> diff_df.rows, stats |-> stats]
        /\ \A vt \in Variants(df_tgt, Compared) :
              compute_diff_multi(df_src, vt, Requested) = [diff_df |-> diff_df.rows, stats |-> stats]
        /\ \A k \in RawKeys(df_src) \cap RawKeys(df_tgt) :
              (\A c \in Compared : FirstRow(df_src, k).vals[c] = FirstRow(df_tgt, k).vals[c])
                  => RecordsOf(diff_df.rows, k) = {}

\* Compare on FreeStock has found a key unchanged whose Account differs
C16_Witness ==
    /\ log = "compared"
    /\ Compared = {"FreeStock"}
    /\ df_src.cols = Cols /\ df_tgt.cols = Cols
    /\ \E k \in RawKeys(df_src) \cap RawKeys(df_tgt) :
          /\ FirstRow(df_src, k).vals["Account"] # FirstRow(df_tgt, k).vals["Account"]
          /\ RecordsOf(diff_df.rows, k) = {}
    /\ stats.same >= 1

\* the sum of the counters f over the columns cs
RECURSIVE SumOver(_, _)
SumOver(f, cs) ==
    IF cs = {} THEN 0
    ELSE LET c == CHOOSE d \in cs : TRUE IN f[c] + SumOver(f, cs \ {c})

\* C17 (per-column counters): per_column_modified[c] is the number of keys of
\* both tables whose column c differs; each counter is at most modified and
\* their sum is at least modified.
C17_PerColumnModified ==
    df_loaded =>
        /\ DOMAIN stats.per_column_modified = Compared
        /\ \A c \in Compared :
              /\ stats.per_column_modified[c]
                    = Cardinality({k \in RawKeys(df_src) \cap RawKeys(df_tgt) : c \in Unequal(k)})
              /\ stats.per_column_modified[c] <= stats.modified
        /\ SumOver(stats.per_column_modified, Compared) >= stats.modified

\* Compare on both columns has found one key that differs in both
C17_Witness ==
    /\ df_loaded
    /\ Compared = Cols
    /\ stats.modified = 1
    /\ stats.per_column_modified["FreeStock"] = 1
    /\ stats.per_column_modified["Account"] = 1

\* C21 (table sizes): total_src and total_tgt are the sizes of the keyed
\* tables: total_src = added + modified + same and total_tgt = removed +
\* modified + same, raw inputs with duplicate keys included.
C21_TotalsAreKeyCounts ==
    df_loaded =>
        /\ stats.total_src = Cardinality(RawKeys(df_src))
        /\ stats.total_tgt = Cardinality(RawKeys(df_tgt))
        /\ stats.total_src = stats.added + stats.modified + stats.same
        /\ stats.total_tgt = stats.removed + stats.modified + stats.same

\* the table df without the columns cs
Without(df, cs) ==
    [cols |-> df.cols \ cs,
     rows |-> [i \in DOMAIN df.rows |->
                 [key |-> df.rows[i].key,
                  vals |-> [c \in df.cols \ cs |-> df.rows[i].vals[c]]]]]

\* the columns both loaded tables have
Shared == df_src.cols \cap df_tgt.cols

\* C22 (one-sided columns): a requested compare or sync column that one of the
\* tables lacks is dropped without an error.  Compare gives what it gives when
\* the column is not requested and when the other table lacks it too, counts
\* only shared columns, and classifies a key as modified only for a requested
\* column of both tables; Apply Sync writes what it writes when the column is
\* not requested and when the other table lacks it too, never adds a column to
\* the target, and leaves a target column the source lacks as it was on the
\* keys of both tables.
C22_OneSidedColumnsDropped ==
    /\ log = "compared" =>
          /\ compute_diff_multi(df_src, df_tgt, Requested \cap Shared)
                = [diff_df |-> diff_df.rows, stats |-> stats]
          /\ compute_diff_multi(Without(df_src, Requested \ Shared),
                                Without(df_tgt, Requested \ Shared), Requested)
                = [diff_df |-> diff_df.rows, stats |-> stats]
          /\ DOMAIN stats.per_column_modified = Requested \cap Shared
          /\ stats.modified
                = Cardinality({k \in RawKeys(df_src) \cap RawKeys(df_tgt) :
                                 \E c \in Requested \cap Shared :
                                    ~ValuesEqual(FirstRow(df_src, k).vals[c],
                                                 FirstRow(df_tgt, k).vals[c])})
    /\ log = "applied" =>
          /\ tgt_tbl = apply_sync_multi(df_src, df_tgt, CfgSyncCols \cap Shared).out
          /\ tgt_tbl = apply_sync_multi(Without(df_src, CfgSyncCols \ Shared),
                                        df_tgt, CfgSyncCols).out
          /\ tgt_tbl.cols = df_tgt.cols
          /\ \A k \in RawKeys(df_src) \cap RawKeys(df_tgt) :
                \A c \in df_tgt.cols \ df_src.cols :
                   FirstRow(tgt_tbl, k).vals[c] = FirstRow(df_tgt, k).vals[c]

\* Apply Sync after a Compare of a source with only Account and a target with
\* only FreeStock: FreeStock was requested for the comparison and both columns
\* for the sync, a key of both tables was found unchanged and kept its row
C22_Witness ==
    /\ log = "applied"
    /\ df_src.cols = {"Account"} /\ df_tgt.cols = {"FreeStock"}
    /\ Requested \ Shared = {"FreeStock"}
    /\ CfgSyncCols \ Shared = CfgSyncCols
    /\ stats.same = 1 /\ stats.modified = 0
    /\ \E k \in RawKeys(df_src) \cap RawKeys(df_tgt) :
          FirstRow(tgt_tbl, k).vals["FreeStock"] = Num(5)

\* the raw table df without the rows whose key an earlier row has
LaterDuplicatesRemoved(df) ==
    LET first == {i \in DOMAIN df.rows : \A j \in 1..(i - 1) : df.rows[j].key # df.rows[i].key}
        nth(n) == CHOOSE i \in first : Cardinality({j \in first : j < i}) = n - 1
    IN [cols |-> df.cols, rows |-> [n \in 1..Cardinality(first) |-> df.rows[nth(n)]]]

\* C28 (duplicate keys): the diff (records and stats) and the sync (written
\* table and count) of raw tables equal those of the tables with every later
\* row of a duplicated key removed.
C28_KeepFirst ==
    /\ log = "compared" =>
          compute_diff_multi(LaterDuplicatesRemoved(df_src),
                             LaterDuplicatesRemoved(df_tgt), Requested)
              = [diff_df |-> diff_df.rows, stats |-> stats]
    /\ log = "applied" =>
          apply_sync_multi(LaterDuplicatesRemoved(df_src),
                           LaterDuplicatesRemoved(df_tgt), CfgSyncCols)
              = [out |-> tgt_tbl, n |-> n_up]

\* what does hold: the later duplicates change total_src and total_tgt only
C28_KeepFirstButTotals ==
    /\ log = "compared" =>
          LET res == compute_diff_multi(LaterDuplicatesRemoved(df_src),
                                        LaterDuplicatesRemoved(df_tgt), Requested)
          IN /\ res.diff_df = diff_df.rows
             /\ [res.stats EXCEPT !.total_src = stats.total_src,
                                  !.total_tgt = stats.total_tgt] = stats
    /\ log = "applied" =>
          apply_sync_multi(LaterDuplicatesRemoved(df_src),
                           LaterDuplicatesRemoved(df_tgt), CfgSyncCols)
              = [out |-> tgt_tbl, n |-> n_up]

\* C24 (Apply Sync guard): Apply Sync writes the target only after a Compare
\* of the loaded tables that completed with a non-empty diff, and in every
\* other state it writes nothing and raises nothing.
C24_ApplyOnlyAfterCompare ==
    [][/\ log' = "applied" =>
             /\ df_loaded /\ diff_df.set /\ diff_df.rows # <<>>
             /\ cfg_to_keys(df_src) # <<>> /\ cfg_to_keys(df_tgt) # <<>>
             /\ diff_df.rows = compute_diff_multi(df_src, df_tgt, Requested).diff_df
       /\ tgt_tbl' # tgt_tbl => log' = "applied"
       /\ log' # "AttributeError"]_vars

\* what does hold: no write without a completed Compare of the loaded tables
\* and a non-empty diff
C24_NoWriteWithoutDiff ==
    [][/\ log' = "applied" =>
             /\ df_loaded /\ diff_df.set /\ diff_df.rows # <<>>
             /\ cfg_to_keys(df_src) # <<>> /\ cfg_to_keys(df_tgt) # <<>>
             /\ diff_df.rows = compute_diff_multi(df_src, df_tgt, Requested).diff_df
       /\ tgt_tbl' # tgt_tbl => log' = "applied"]_vars

(* ====================== properties of the normalizer ================== *)

\* the normalized rows of the loaded file under the current settings
NormRows == NormalizeFrame(csv_rows, upper_keys, strip_keys, clamp_negative)

\* the positions of the rows of key k that carry a quantity
QtyPositions(rows, k) ==
    {i \in DOMAIN rows :
        /\ <<rows[i].sku_key, rows[i].account_key>> = k
        /\ rows[i].qty_wh.kind # "nan"}

RECURSIVE TotalAt(_, _)
TotalAt(rows, idx) ==
    IF idx = {} THEN Q(0, 1)
    ELSE LET i == CHOOSE j \in idx : \A l \in idx : j >= l
         IN QAdd(TotalAt(rows, idx \ {i}), rows[i].qty_wh)

\* r is what the reducer named choice makes of the quantities at idx
IsReduction(rows, choice, idx, r) ==
    IF choice = "sum" THEN r = TotalAt(rows, idx)
    ELSE IF idx = {} THEN r = NaNQty
    ELSE IF choice = "max"
    THEN (\E i \in idx : r = rows[i].qty_wh) /\ \A i \in idx : ~QLess(r, rows[i].qty_wh)
    ELSE IF choice = "min"
    THEN (\E i \in idx : r = rows[i].qty_wh) /\ \A i \in idx : ~QLess(rows[i].qty_wh, r)
    ELSE IF choice = "first"
    THEN \E i \in idx : r = rows[i].qty_wh /\ \A j \in idx : i <= j
    ELSE \E i \in idx : r = rows[i].qty_wh /\ \A j \in idx : i >= j

\* the reconcile pipeline: the cleaned sku and the integer quantity of every
\* row of the file, and the quantities added up over the positions idx
VsCleaned ==
    LET df == read_csv_string(csv_rows)
    IN [i \in DOMAIN df |-> [sku |-> clean_sku(df[i].sku), qty |-> parse_qty_to_int(df[i].qty).v]]

RECURSIVE VsTotalAt(_, _)
VsTotalAt(cleaned, idx) ==
    IF idx = {} THEN 0
    ELSE LET i == CHOOSE j \in idx : TRUE
         IN cleaned[i].qty + VsTotalAt(cleaned, idx \ {i})

VsPositions(cleaned, k) == {i \in DOMAIN cleaned : cleaned[i].sku = k}

\* the rows (A,5),(A,7) of the specification's example
DuplicateExample ==
    <<CsvRow(SkuA, AccS, Txt(<<"5">>)), CsvRow(SkuA, AccS, Txt(<<"7">>))>>

ExampleQty(choice) ==
    IF choice = "sum" THEN Q(12, 1)
    ELSE IF choice \in {"max", "last"} THEN Q(7, 1)
    ELSE Q(5, 1)

\* C8: aggregation determinism.  After the comparison every normalized key
\* has exactly one aggregated row, and its quantity is the chosen reducer
\* (sum, max, min, first, last) of the coerced quantities of the rows of that
\* key in input order, missing quantities skipped; load_and_normalize always
\* sums; the rows (A,5),(A,7) give 12 under sum, 7 under max, 5 under first.
C8_AggregationDeterminism ==
    LET rows == NormRows
        cleaned == VsCleaned
    IN /\ compare_data_clicked =>
            /\ {<<g.sku_key, g.account_key>> : g \in a_grp}
                 = {<<rows[i].sku_key, rows[i].account_key>> : i \in DOMAIN rows}
            /\ \A g, h \in a_grp :
                 (g.sku_key = h.sku_key /\ g.account_key = h.account_key) => g = h
            /\ \A g \in a_grp :
                 IsReduction(rows, agg_choice,
                             QtyPositions(rows, <<g.sku_key, g.account_key>>), g.qty_wh)
       /\ vs_norm.state = "ok" =>
            /\ {g.sku : g \in vs_norm.rows}
                 = {cleaned[i].sku : i \in DOMAIN cleaned} \ {NaNCell}
            /\ \A g \in vs_norm.rows :
                 g.qty = VsTotalAt(cleaned, VsPositions(cleaned, g.sku))
       /\ (compare_data_clicked /\ csv_rows = DuplicateExample) =>
            a_grp = {[sku_key |-> SkuA, account_key |-> AccS,
                      qty_wh |-> ExampleQty(agg_choice)]}
       /\ (vs_norm.state = "ok" /\ csv_rows = DuplicateExample) =>
            vs_norm.rows = {[sku |-> SkuA, qty |-> 12, account |-> AccS]}

\* the example rows compared under max: one row for A with quantity 7
C8_Witness ==
    /\ compare_data_clicked
    /\ csv_rows = DuplicateExample
    /\ agg_choice = "max"
    /\ a_grp = {[sku_key |-> SkuA, account_key |-> AccS, qty_wh |-> Q(7, 1)]}
    /\ vs_norm.state = "ok"

\* C9: numeric coercion.  The quantity "(1,200)" normalizes to -1200, and
\* to 0 when clamp_negative is set.
C9_NumericCoercion ==
    (compare_data_clicked /\ \E i \in DOMAIN csv_rows : csv_rows[i].qty = ParenQty) =>
        /\ coerce_quantity(ParenQty, clamp_negative)
             = (IF clamp_negative THEN Q(0, 1) ELSE Q(0 - 1200, 1))
        /\ parse_qty_to_int(ParenQty) = Returned(0 - 1200)

\* C18 (key uniqueness): every table handed to the diff, the stats or the sync
\* has at most one row per normalized key, whatever duplicates the raw input
\* held: the aggregated Streamlit frame, the frame of load_and_normalize and
\* the indexed frame of as_multi_index.
C18_KeyUniqueness ==
    /\ \A g, h \in a_grp :
          (g.sku_key = h.sku_key /\ g.account_key = h.account_key) => g = h
    /\ \A g, h \in vs_norm.rows : g.sku = h.sku => g = h
    \* as_multi_index depends on its argument alone: every raw table, looked at
    \* in the states that hold the empty file
    /\ csv_rows = <<>> =>
          \A df \in RawTables :
              /\ \A k \in RawKeys(df) : Cardinality(RecordsOf(as_multi_index(df).rows, k)) = 1
              /\ Index(as_multi_index(df)) = RawKeys(df)

\* the file holds A and " a" with different quantities; both programs have
\* made one row of them
C18_Witness ==
    /\ compare_data_clicked /\ upper_keys /\ strip_keys
    /\ vs_norm.state = "ok"
    /\ Len(csv_rows) = 2
    /\ csv_rows[1].sku # csv_rows[2].sku
    /\ csv_rows[1].qty # csv_rows[2].qty
    /\ Cardinality(a_grp) = 1
    /\ Cardinality(vs_norm.rows) = 1

\* a key cell that is null, or empty after the trimming the settings ask for
KeyEmpty(x, st) == x.kind = "missing" \/ StripIf(st, x.txt) = <<>>

\* the rows of the file whose key has no null or empty component
KeyedRows(st) ==
    SelectSeq(csv_rows, LAMBDA r : ~KeyEmpty(r.sku, st) /\ ~KeyEmpty(r.account, st))
SkuRows == SelectSeq(csv_rows, LAMBDA r : ~KeyEmpty(r.sku, TRUE))

\* C19 (rows without a key are dropped): a raw row whose key has a null or
\* empty component after trimming / upper-casing takes no part: the normalized
\* table is the one obtained from the other rows alone.
C19_KeylessRowsDropped ==
    /\ compare_data_clicked =>
          a_grp = MainFlow(KeyedRows(strip_keys), agg_choice, upper_keys, strip_keys,
                           clamp_negative)
    /\ vs_norm.state = "ok" => vs_norm = normalize_vs(SkuRows)

\* the text is no decimal literal, with or without the accounting notation
Unparsable(x) ==
    x.kind = "missing" \/ (ParseNumber(x.txt).kind # "num" /\ parse_qty_to_int(x).v = 0)

\* C20 (coercion is total): every quantity of the file is coerced to a number
\* without an error, and a value that cannot be parsed is coerced to 0.
C20_CoercionTotal ==
    /\ vs_norm.state # "raised"
    /\ vs_norm.state = "ok" =>
          \A i \in DOMAIN csv_rows :
              Unparsable(csv_rows[i].qty)
                  => parse_qty_to_int(read_csv_string(csv_rows)[i].qty) = Returned(0)
    /\ compare_data_clicked =>
          \A i \in DOMAIN csv_rows :
              LET q == coerce_quantity(load_csv(csv_rows)[i].qty, clamp_negative)
              IN /\ q.kind = "num"
                 /\ Unparsable(csv_rows[i].qty) => q = Q(0, 1)

(* =================== properties of the reconciliation ================= *)
\* the quantity of a sku in a normalized table, 0 for a sku it lacks
QtyOr0(tbl, k) == IF k \in SkusOf(tbl) THEN QtyAt(tbl, k) ELSE 0

\* a key of a Streamlit frame is in stock: it has a quantity above 0
InStock(grp, k) == k \in GrpKeys(grp) /\ QLess(Q(0, 1), fillna0(GrpQty(grp, k)))

\* C29 (in stock on one side, out of stock on the other): both programs count
\* over every key of either side, the quantity of a side without the key being
\* 0; a key of one side only with a quantity above 0 is in that side's bucket,
\* and no key is in both buckets.
C29_CrossCounts ==
    /\ cycle.state = "done" =>
          LET h == hnau_norm.rows
              v == vs_norm.rows
              keys == SkusOf(h) \cup SkusOf(v)
              h_in == {k \in keys : QtyOr0(h, k) > 0 /\ QtyOr0(v, k) <= 0}
              v_in == {k \in keys : QtyOr0(v, k) > 0 /\ QtyOr0(h, k) <= 0}
          IN /\ datasets.h_in_v_out = h_in
             /\ datasets.v_in_h_out = v_in
             /\ keys # {} => /\ stats_df.hnau_in_vs_out = Num(Cardinality(h_in))
                             /\ stats_df.vs_in_hnau_out = Num(Cardinality(v_in))
             /\ \A k \in SkusOf(h) \ SkusOf(v) : QtyAt(h, k) > 0 => k \in datasets.h_in_v_out
             /\ \A k \in SkusOf(v) \ SkusOf(h) : QtyAt(v, k) > 0 => k \in datasets.v_in_h_out
             /\ datasets.h_in_v_out \cap datasets.v_in_h_out = {}
    /\ compare_data_clicked =>
          LET keys == GrpKeys(a_grp) \cup GrpKeys(b_grp)
              wh_in == {k \in keys : InStock(a_grp, k) /\ ~InStock(b_grp, k)}
              ecom_in == {k \in keys : InStock(b_grp, k) /\ ~InStock(a_grp, k)}
          IN /\ kpi.wh_stock_ecom_oos = Cardinality(wh_in)
             /\ kpi.ecom_stock_wh_oos = Cardinality(ecom_in)
             /\ {<<r.sku_key, r.account_key>> : r \in merged} = keys
             /\ kpi.wh_stock_ecom_oos + kpi.ecom_stock_wh_oos <= kpi.total_records

\* a cycle on an export with A in stock and a feed with only B, in stock: each
\* key is on one side only and each is counted in its side's bucket
C29_Witness ==
    /\ cycle.state = "done"
    /\ SkusOf(hnau_norm.rows) = {SkuA}
    /\ SkusOf(vs_norm.rows) = {SkuB}
    /\ stats_df.hnau_in_vs_out = Num(1)
    /\ stats_df.vs_in_hnau_out = Num(1)
    /\ datasets = [h_in_v_out |-> {SkuA}, v_in_h_out |-> {SkuB}]

\* C27 (update from the latest feed): a cycle with do_update leaves inventory
\* with exactly the rows of inventory_latest, which are the rows of the feed;
\* the cycle after it, on a feed with the same rows, counts 0 changes.
C27_UpdateCopiesLatest ==
    [][/\ (cycle'.state = "done" /\ cycle'.do_update) =>
             /\ inventory' = inventory_latest'
             /\ inventory' = upsert_inventory_latest_from_vs_norm(vs_norm'.rows)
             /\ {r.SupplierSKU : r \in inventory'} = {k.txt : k \in SkusOf(vs_norm'.rows)}
       /\ (cycle.state = "done" /\ cycle.do_update /\ cycle'.state = "done"
             /\ vs_norm' = vs_norm) => cycle'.changes = 0]_vars

\* a cycle with do_update on a feed of A alone, after an update from a feed
\* with the same A: no change is counted and inventory holds A alone
C27_Witness ==
    /\ cycle = [state |-> "done", do_update |-> TRUE, changes |-> 0]
    /\ vs_norm.rows # {}
    /\ inventory = inventory_latest
    /\ {r.SupplierSKU : r \in inventory} = {<<"A">>}

(* ====================== properties of the chunking ==================== *)
\* C30 (chunk sizes): no file of _write_files and no file of
\* prepare_magento2_import holds more than chunk_size data rows, and every
\* batch of _iter_msi_batches holds between 1 and batch_size items.
C30_ChunksWithinSize ==
    /\ \A i \in DOMAIN out_files : Len(out_files[i]) <= chunk_size
    /\ \A i \in DOMAIN import_files : Len(import_files[i]) <= chunk_size
    /\ \A i \in DOMAIN msi_batches :
          Len(msi_batches[i]) >= 1 /\ Len(msi_batches[i]) <= chunk_size

\* what does hold: the files of _write_files and the batches are within the
\* size, and a file of prepare_magento2_import exceeds it by at most one row
C30_WithinSizeButImport ==
    /\ \A i \in DOMAIN out_files : Len(out_files[i]) <= chunk_size
    /\ \A i \in DOMAIN import_files : Len(import_files[i]) <= chunk_size + 1
    /\ \A i \in DOMAIN msi_batches :
          Len(msi_batches[i]) >= 1 /\ Len(msi_batches[i]) <= chunk_size

(* ======================= properties of the workers ==================== *)
\* C23 (Cancel is not lost): cancel_event, once set, is cleared only after
\* the worker has found it set.
C23_CancelNeverLost ==
    [][(cancel_event /\ ~cancel_event') => sia_observed]_vars

\* C25 (one worker): a thread is created only when every thread of the
\* application has returned, a Start handler of StockImportApp leaves
\* cancel_event as it is, start() clears stop_event only when no thread of
\* InventoryGUIApp is alive, and so at most one thread per application is
\* alive.
C25_OneWorker ==
    [][/\ Len(sia_threads') > Len(sia_threads) =>
             AliveIn(sia_threads) = {} /\ cancel_event' = cancel_event
       /\ Len(rg_threads') > Len(rg_threads) => AliveIn(rg_threads) = {}
       /\ (stop_event /\ ~stop_event') => AliveIn(rg_threads) = {}
       /\ Cardinality(AliveIn(sia_threads')) <= 1
       /\ Cardinality(AliveIn(rg_threads')) <= 1]_vars

\* a second worker of each application is alive, the first has returned
C25_Witness ==
    /\ Len(sia_threads) = 2 /\ AliveIn(sia_threads) = {2}
    /\ Len(rg_threads) = 2 /\ AliveIn(rg_threads) = {2}

\* the positions of _run_sftp_loop with the connection open
InSftpLoop == {"while", "cycle", "wait", "close"}

\* thread i of InventoryGUIApp is at one of the positions ps
RgAt(i, ps) == i \in DOMAIN rg_threads /\ rg_threads[i] \in ps

\* C26 (stop ends the polling loop): with stop_event set no cycle is started
\* and the poll wait sleeps no further second; a loop that is running when
\* stop_event is set closes the connection and returns.
C26_StopEndsLoop ==
    /\ [][/\ \A i \in DOMAIN rg_threads :
                (stop_event /\ rg_threads[i] # "cycle") => rg_threads'[i] # "cycle"
          /\ (stop_event /\ \E i \in DOMAIN rg_threads : rg_threads[i] = "wait")
                => wait_left' = wait_left]_vars
    /\ \A i \in 1..MaxThreads :
          (stop_event /\ RgAt(i, InSftpLoop)) ~> (RgAt(i, {"dead"}) /\ ~sftp_open)

\* stop() during the poll wait, with seconds left: the loop has returned and
\* the connection is closed
C26_Witness ==
    /\ stop_event
    /\ rg_threads = <<"dead">>
    /\ ~sftp_open
    /\ wait_left > 0

====
